---- MODULE Spec2Model ----
(***************************************************************************)
(* Model of the data-preparation core of bengali-asr:                      *)
(*   src/data/preprocess.py  AudioPreprocessor, DatasetSplitter, the two   *)
(*                           dataset loaders, save_tsv and main.           *)
(*                                                                         *)
(* Ratios are Python numbers.  A number is modelled as [k, v]: k is the    *)
(* Python type ("i" int, "f" float) and v its value in units of 1/Scale.   *)
(* The arithmetic is exact; for every ratio triple of RatioTriples and     *)
(* every speaker count within the bounds the IEEE-754 result of the same   *)
(* expression selects the same branch and the same ceil().                 *)
(***************************************************************************)
EXTENDS Integers, Sequences, FiniteSets, TLC

VARIABLES
    ctorArgs,     \* arguments of DatasetSplitter(...): train/valid/test ratio, seed
    splitter,     \* the DatasetSplitter object: status "none", "AssertionError" or "ok"
    corpus,       \* the record list handed to split_by_speaker
    history,      \* one entry [data, out] per finished call of split_by_speaker
    rngMemo,      \* RandomState(seed).permutation(n) as far as it has been observed
    args,         \* main: the parsed command line
    world,        \* the raw datasets on disk: directories present, lines per file
    pc,           \* main: where it stands
    dirIdx,       \* main: index of the input directory being handled
    ld,           \* the running loader: function, position, samples so far
    pa,           \* the running process_audio call
    all_samples,  \* main: all_samples
    parts,        \* main: train_data, valid_data, test_data
    total_duration, \* main: total_duration, in hundredths of a second
    dirsMade,     \* directories created under the output directory
    audioFiles,   \* audio files under the output directory: path -> [sr, secs]
    manifests,    \* train.tsv / valid.tsv / test.tsv: file name -> rows
    stats,        \* stats.json: <<>> until written, then <<the object>>
    log,          \* what the run printed
    calls,        \* one entry per returned loader call: what it read and returned
    exc,          \* the exception that ended main, if any
    odd,          \* lines read so far that were not plain (bounded by MaxOdd)
    aug,          \* the running augment_dataset call
    augHistory,   \* one entry per finished augment_dataset run
    sig,          \* a signal transform applied to a buffer: arguments and result
    tsv           \* a manifest written by save_tsv and read back by augment_dataset

pipeVars == <<args, world, pc, dirIdx, ld, pa, all_samples, parts, total_duration,
              dirsMade, audioFiles, manifests, stats, log, calls, exc, odd>>

toolVars == <<aug, augHistory, sig, tsv>>

vars == <<ctorArgs, splitter, corpus, history, rngMemo, args, world, pc, dirIdx, ld, pa,
          all_samples, parts, total_duration, dirsMade, audioFiles, manifests, stats,
          log, calls, exc, odd, aug, augHistory, sig, tsv>>

----------------------------------------------------------------------------
(* Bounds *)

MaxRecords == 4     \* longest record list handed to the splitter
NPaths == 3         \* distinct audio paths; record i has path ((i-1) % NPaths) + 1
MaxCalls == 2       \* calls of split_by_speaker on one splitter
MaxLines == 7       \* lines / samples of all raw datasets of one run of main
MaxLoaderLines == 3 \* lines / samples of the dataset of one loader call on its own
MaxOdd == 1         \* lines of one run that are not plain (skipped, failing, ...)
MaxAugRecords == 3  \* rows of the manifest handed to augment_dataset
MaxAugRuns == 2     \* runs of augment_dataset on one manifest
MaxBuf == 3         \* samples of an audio or noise buffer
MaxRows == 2        \* records of a manifest written by save_tsv
MaxField == 2       \* characters of a transcript in such a manifest

----------------------------------------------------------------------------
(* Python numbers *)

Scale == 10 * 1000 * 1000

Tolerance == Scale \div (1000 * 1000)      \* 1e-6

Abs(x) == IF x < 0 THEN -x ELSE x

F(v) == [k |-> "f", v |-> v]

I(n) == [k |-> "i", v |-> n * Scale]

\* a + b: int + int is an int, anything else a float
Add(a, b) == [k |-> IF a.k = "i" /\ b.k = "i" THEN "i" ELSE "f", v |-> a.v + b.v]

Tenth == Scale \div 10

DefaultSeed == 42

\* random_seed: the default and one other seed
Seeds == {DefaultSeed, DefaultSeed + 1}

\* <<train_ratio, valid_ratio, test_ratio>>
RatioTriples ==
    { <<F(8 * Tenth), F(Tenth), F(Tenth)>>,              \* the defaults 0.8 / 0.1 / 0.1
      <<F(5 * Tenth), F(Scale \div 4), F(Scale \div 4)>>,\* 0.5 / 0.25 / 0.25
      <<F(4 * Tenth), F(3 * Tenth), F(3 * Tenth)>>,      \* 0.4 / 0.3 / 0.3
      <<F(Scale), I(0), I(0)>>,                          \* 1.0 / 0 / 0
      <<I(0), I(1), I(0)>>,                              \* 0 / 1 / 0
      <<I(-1), I(1), I(1)>>,                             \* -1 / 1 / 1
      <<F(0), F(5 * Tenth), F(5 * Tenth)>>,              \* 0.0 / 0.5 / 0.5
      <<F(8 * Tenth), F(Tenth), F(Tenth + 1)>>,          \* sum 1.0000001
      <<F(8 * Tenth), F(Tenth), F(Tenth - 9)>>,          \* sum 0.9999991
      <<F(8 * Tenth), F(Tenth), F(Tenth + Tolerance)>>,  \* sum 1.000001
      <<F(8 * Tenth), F(Tenth), F(Tenth - Tolerance)>>,  \* sum 0.999999
      <<F(7 * Tenth), F(Tenth), F(Tenth)>>,              \* sum 0.9
      <<F(8 * Tenth), F(2 * Tenth), F(Tenth)>> }         \* sum 1.1

----------------------------------------------------------------------------
(* Records *)

NoSpeaker == "<no speaker key>"

\* two named speakers, the empty speaker value and a record without the key
SpeakerValues == {"A", "B", "", NoSpeaker}

PathOf(i) == "a" \o ToString(((i - 1) % NPaths) + 1) \o ".wav"

\* record lists of length 0..MaxRecords, and one longer list in which the
\* records of two speakers alternate; the i-th record has path PathOf(i)
Corpora ==
    UNION { { [i \in 1..n |-> [path |-> PathOf(i), speaker |-> f[i]]] :
                f \in [1..n -> SpeakerValues] } : n \in 0..MaxRecords }
    \cup { [i \in 1..(MaxRecords + 2) |->
               [path |-> PathOf(i),
                speaker |-> IF i = MaxRecords + 2 THEN NoSpeaker
                            ELSE IF i = MaxRecords + 1 THEN ""
                            ELSE IF i % 2 = 1 THEN "A" ELSE "B"]] }

\* sample.get("speaker", "unknown")
SpeakerKey(sample) ==
    IF sample.speaker = NoSpeaker THEN "unknown" ELSE sample.speaker

RECURSIVE SpeakerOrderFrom(_, _, _)
SpeakerOrderFrom(data, i, acc) ==
    IF i > Len(data) THEN acc
    ELSE LET s == SpeakerKey(data[i])
         IN SpeakerOrderFrom(data, i + 1,
                IF \E j \in 1..Len(acc) : acc[j] = s THEN acc ELSE Append(acc, s))

\* list(speaker_to_samples.keys()): the speakers in order of first appearance
SpeakerOrder(data) == SpeakerOrderFrom(data, 1, <<>>)

\* speaker_to_samples[speaker]
SamplesOf(data, speaker) == SelectSeq(data, LAMBDA s : SpeakerKey(s) = speaker)

RECURSIVE Collect(_, _, _)
\* for speaker in speakers[i..]: out.extend(speaker_to_samples[speaker])
Collect(data, speakers, i) ==
    IF i > Len(speakers) THEN <<>>
    ELSE SamplesOf(data, speakers[i]) \o Collect(data, speakers, i + 1)

----------------------------------------------------------------------------
(* DatasetSplitter.__init__ *)

NoSplitter == [status |-> "none", train_ratio |-> F(0), valid_ratio |-> F(0),
               test_ratio |-> F(0), random_seed |-> 0]

\* a constructor that forgets abs(): any sum below 1.0 + 1e-6 passes
RatiosSumToOneNoAbs(tr, va, te) == tr.v + va.v + te.v - Scale < Tolerance

\* abs(train_ratio + valid_ratio + test_ratio - 1.0) < 1e-6
RatiosSumToOne(tr, va, te) == Abs(tr.v + va.v + te.v - Scale) < Tolerance

Construct(a) ==
    IF RatiosSumToOne(a.train_ratio, a.valid_ratio, a.test_ratio)
    THEN [status |-> "ok", train_ratio |-> a.train_ratio,
          valid_ratio |-> a.valid_ratio, test_ratio |-> a.test_ratio,
          random_seed |-> a.random_seed]
    ELSE [NoSplitter EXCEPT !.status = "AssertionError"]

----------------------------------------------------------------------------
(* sklearn.model_selection.train_test_split(arrays, test_size, random_state) *)

\* test_size as the exact quotient num / den (den > 0) of Python type k
Quot(k, num, den) ==
    IF den < 0 THEN [k |-> k, num |-> -num, den |-> -den]
    ELSE [k |-> k, num |-> num, den |-> den]

\* n_test of _validate_shuffle_split, 0 where it raises ValueError for test_size:
\* an int must lie in [1, n_samples), a float in (0, 1); a float gives ceil(ts * n)
NTest(n, ts) ==
    IF ts.k = "i"
    THEN LET t == ts.num \div ts.den
         IN IF t >= n \/ t <= 0 THEN 0 ELSE t
    ELSE IF ts.num <= 0 \/ ts.num >= ts.den THEN 0
         ELSE (ts.num * n + ts.den - 1) \div ts.den

\* a check of test_size alone, which lets an empty train side through
SplitValidTestOnly(n, ts) == NTest(n, ts) > 0

\* neither ValueError of _validate_shuffle_split: test_size in range and n_train > 0
SplitValid(n, ts) == NTest(n, ts) > 0 /\ n - NTest(n, ts) > 0

AllPermutations(n) == { p \in [1..n -> 1..n] : \A i, j \in 1..n : p[i] = p[j] => i = j }

\* numpy.random.RandomState(42).permutation(n), 1-based: MT19937 seeded by
\* init_genrand(42), Fisher-Yates from the top with masked rejection sampling
Seed42Permutation ==
    <<  <<1>>,
        <<2, 1>>,
        <<1, 2, 3>>,
        <<2, 4, 1, 3>>,
        <<2, 5, 3, 1, 4>>,
        <<1, 2, 6, 3, 5, 4>>,
        <<1, 2, 6, 3, 5, 4, 7>>,
        <<2, 6, 1, 8, 3, 5, 4, 7>> >>

\* a shuffle drawn from the process-wide generator (random_state omitted)
ShuffleChoicesUnseeded(memo, seed, n) == AllPermutations(n)

\* RandomState(random_state).permutation(n): a function of (seed, n) alone. For
\* seed 42 it is the table; for another seed it is some permutation, the same
\* one every time it is asked for
ShuffleChoices(memo, seed, n) ==
    IF seed = DefaultSeed /\ n \in DOMAIN Seed42Permutation
    THEN {Seed42Permutation[n]}
    ELSE IF <<seed, n>> \in DOMAIN memo THEN {memo[<<seed, n>>]}
         ELSE AllPermutations(n)

Remember(memo, seed, n, p) ==
    IF seed = DefaultSeed /\ n \in DOMAIN Seed42Permutation THEN memo
    ELSE [k \in DOMAIN memo \cup {<<seed, n>>} |->
              IF k = <<seed, n>> THEN p ELSE memo[k]]

\* ind_test = permutation[:n_test]
TestIndices(perm, n_test) == SubSeq(perm, 1, n_test)

\* a train side that skips one index after the test side
TrainIndicesSkipOne(perm, n_test, n_train) == SubSeq(perm, n_test + 2, n_test + n_train)

\* ind_train = permutation[n_test:(n_test + n_train)]
TrainIndices(perm, n_test, n_train) == SubSeq(perm, n_test + 1, n_test + n_train)

\* (train, test) for a valid test_size and the permutation drawn
TrainTestSplit(arr, ts, perm) ==
    LET n == Len(arr)
        n_test == NTest(n, ts)
        ti == TestIndices(perm, n_test)
        tr == TrainIndices(perm, n_test, n - n_test)
    IN [train |-> [i \in 1..Len(tr) |-> arr[tr[i]]],
        test |-> [i \in 1..Len(ti) |-> arr[ti[i]]]]

----------------------------------------------------------------------------
(* DatasetSplitter.split_by_speaker *)

Raised(err) == [status |-> err, train |-> <<>>, valid |-> <<>>, test |-> <<>>]

\* a handler that answers a failed partition by putting every record in train
CaughtAsNoSplit(data, err) ==
    [status |-> "returned", train |-> data, valid |-> <<>>, test |-> <<>>]

\* lines 175-186 stand in no try block: what train_test_split raises leaves
\* split_by_speaker and nothing is returned
Uncaught(data, err) == Raised(err)

\* test_size = self.valid_ratio + self.test_ratio
FirstTestSize(self) ==
    LET sum == Add(self.valid_ratio, self.test_ratio)
    IN Quot(sum.k, sum.v, Scale)

\* test_size = self.test_ratio / (self.valid_ratio + self.test_ratio)
SecondTestSize(self) ==
    Quot("f", self.test_ratio.v, self.valid_ratio.v + self.test_ratio.v)

\* the second split handed the whole speaker list instead of temp_speakers
SecondSplitInputAll(speakers, temp_speakers) == speakers

\* the list the second train_test_split partitions
SecondSplitInput(speakers, temp_speakers) == temp_speakers

\* the three record lists picked out of data in the order of data
ExpandInInputOrder(data, train_speakers, valid_speakers, test_speakers) ==
    LET Of(speakers) ==
            SelectSeq(data, LAMBDA s : \E i \in DOMAIN speakers : speakers[i] = SpeakerKey(s))
    IN [status |-> "returned", train |-> Of(train_speakers),
        valid |-> Of(valid_speakers), test |-> Of(test_speakers)]

\* lines 188-202: expand the three speaker lists into record lists
Expand(data, train_speakers, valid_speakers, test_speakers) ==
    [status |-> "returned",
     train |-> Collect(data, train_speakers, 1),
     valid |-> Collect(data, valid_speakers, 1),
     test |-> Collect(data, test_speakers, 1)]

\* split_by_speaker(data) of `self`: the set of [out, memo] it can end with
SplitBySpeakerRuns(self, data, memo) ==
    LET speakers == SpeakerOrder(data)
        n == Len(speakers)
        seed == self.random_seed
        ts1 == FirstTestSize(self)
    IN IF ~SplitValid(n, ts1)
       THEN {[out |-> Uncaught(data, "ValueError"), memo |-> memo]}
       ELSE UNION {
         LET first == TrainTestSplit(speakers, ts1, p1)
             memo1 == Remember(memo, seed, n, p1)
             arr2 == SecondSplitInput(speakers, first.test)
             n2 == Len(arr2)
         IN IF self.valid_ratio.v + self.test_ratio.v = 0
            THEN {[out |-> Uncaught(data, "ZeroDivisionError"), memo |-> memo1]}
            ELSE IF ~SplitValid(n2, SecondTestSize(self))
            THEN {[out |-> Uncaught(data, "ValueError"), memo |-> memo1]}
            ELSE { LET second == TrainTestSplit(arr2, SecondTestSize(self), p2)
                   IN [out |-> Expand(data, first.train, second.train, second.test),
                       memo |-> Remember(memo1, seed, n2, p2)] :
                   p2 \in ShuffleChoices(memo1, seed, n2) }
         : p1 \in ShuffleChoices(memo, seed, n) }

----------------------------------------------------------------------------
(* Files, command line and raw datasets *)

Put(f, k, v) == [x \in DOMAIN f \cup {k} |-> IF x = k THEN v ELSE f[x]]

Remove(f, k) == [x \in DOMAIN f \ {k} |-> f[x]]

\* str(path) of a path built as directory / file name
PathStr(path) == path.dir \o "/" \o path.name

DefaultSampleRate == 16000

SampleRates == {DefaultSampleRate, 8000}

\* a native rate that differs from the target rate
OtherRate(target_sr) == IF target_sr = DefaultSampleRate THEN 8000 ELSE DefaultSampleRate

\* an input directory and the branch of main it selects: "openslr" if the
\* lower-cased path contains openslr, else "common_voice" if it contains
\* common_voice, else none
OpenslrDir == [name |-> "raw/openslr_slr53", kind |-> "openslr"]

CommonVoiceDir == [name |-> "raw/common_voice_bn", kind |-> "common_voice"]

BengaliAiDir == [name |-> "raw/bengaliai", kind |-> "other"]

InputDirChoices ==
    { <<OpenslrDir>>, <<CommonVoiceDir>>, <<OpenslrDir, CommonVoiceDir>>, <<BengaliAiDir>> }

OutputDir == "processed"

\* processed_audio_dir = output_dir / "audio"
ProcessedAudioDir == OutputDir \o "/audio"

SplitDirs == <<"train", "valid", "test">>

CvSplitNames == <<"train", "validation", "test">>

Dir(state, n) == [state |-> state, lines |-> n]

\* the three split directories of an OpenSLR tree holding n lines in all
OpenslrLayouts(n) ==
    { <<Dir("ok", n), Dir("missing", 0), Dir("no_transcripts", 0)>> }
    \cup (IF n >= 1 THEN { <<Dir("ok", 1), Dir("ok", n - 1), Dir("ok", 0)>> } ELSE {})

\* a cached Common Voice dataset holding n samples in all
CvLayouts(n) ==
    { [loadable |-> TRUE, splits |-> <<Dir("ok", n), Dir("missing", 0), Dir("ok", 0)>>] }
    \cup (IF n >= 1
          THEN { [loadable |-> TRUE,
                  splits |-> <<Dir("ok", 1), Dir("ok", n - 1), Dir("missing", 0)>>] }
          ELSE { [loadable |-> FALSE,
                  splits |-> <<Dir("missing", 0), Dir("missing", 0), Dir("missing", 0)>>] })

HasKind(dirs, kind) == \E i \in DOMAIN dirs : dirs[i].kind = kind

\* the raw data under the input directories: `counts` are the sizes a dataset
\* can have, `profiles` the kinds of line it holds
Worlds(dirs, counts, profiles) ==
    { [openslr |-> o, common_voice |-> c, profiles |-> profiles] :
        o \in UNION { OpenslrLayouts(n) :
                        n \in IF HasKind(dirs, "openslr") THEN counts ELSE {0} },
        c \in UNION { CvLayouts(n) :
                        n \in IF HasKind(dirs, "common_voice") THEN counts ELSE {0} } }

TotalLines(layout) == layout[1].lines + layout[2].lines + layout[3].lines

\* what a line of the raw data can be, besides plain
ProcessProfiles ==
    {"other_rate", "padded", "empty", "load_fails", "resample_fails", "trim_fails",
     "mkdir_fails", "write_fails"}

OpenslrProfiles == {"plain", "short", "noaudio", "shared_speaker", "no_underscore"}
                       \cup ProcessProfiles

CvProfiles == {"plain", "shared_speaker", "no_client_id", "temp_write_fails",
               "no_sentence", "unlink_fails"} \cup ProcessProfiles

\* the kinds of line the raw data of a whole run of main holds
MainProfiles == {"plain", "shared_speaker", "padded", "load_fails"}

\* dataset sizes of a whole run of main
MainLineCounts == {0, 1, MaxLines - 1, MaxLines}

NoExc == [type |-> "", msg |-> ""]

Msg(text, path, reason) == [text |-> text, path |-> path, reason |-> reason]

----------------------------------------------------------------------------
(* AudioPreprocessor.process_audio *)

NoResult == [success |-> FALSE, error |-> "<not returned>"]

IdleProcess ==
    [pc |-> "idle", input_path |-> "", output_path |-> [dir |-> "", name |-> ""],
     profile |-> "", sr |-> 0, secs |-> 0, original_sr |-> 0, original_duration |-> 0,
     steps |-> <<>>, raised |-> NoExc, result |-> NoResult]

\* the call preprocessor.process_audio(input_path, str(output_path)) begins
StartProcess(input_path, output_path, profile) ==
    [IdleProcess EXCEPT !.pc = "load", !.input_path = input_path,
                        !.output_path = output_path, !.profile = profile]

\* the exception a failing step raises
ErrorOf(step) ==
    CASE step = "load" -> [type |-> "LibsndfileError", msg |-> "load: cannot open"]
      [] step = "resample" -> [type |-> "ParameterError", msg |-> "resample: bad rate"]
      [] step = "normalize" -> [type |-> "ValueError", msg |-> "normalize: zero-size array"]
      [] step = "trim" -> [type |-> "ParameterError", msg |-> "trim: bad buffer"]
      [] step = "mkdir" -> [type |-> "OSError", msg |-> "mkdir: permission denied"]
      [] step = "write" -> [type |-> "OSError", msg |-> "write: no space left"]

\* a handler for I/O errors only
CatchesOnlyOSError(type) == type = "OSError"

\* except Exception: every exception a step raises derives from Exception
Catches(type) == TRUE

\* a handler that notes the exception and lets the call go on with its next step
RaiseInAndGoOn(p, step) ==
    [p EXCEPT !.raised = ErrorOf(step),
              !.pc = CASE step = "load" -> "resample"
                       [] step = "resample" -> "normalize"
                       [] step = "normalize" -> "trim"
                       [] step = "trim" -> "mkdir"
                       [] step = "mkdir" -> "write"
                       [] step = "write" -> "done"]

\* an exception raised inside the try block of process_audio
RaiseIn(p, step) ==
    LET e == ErrorOf(step)
    IN IF Catches(e.type)
       THEN [p EXCEPT !.pc = "done", !.raised = e,
                      !.result = [success |-> FALSE, error |-> e.msg]]
       ELSE [p EXCEPT !.pc = "propagated", !.raised = e]

Did(p, step, next) == [p EXCEPT !.steps = Append(@, step), !.pc = next]

\* seconds of audio in the file, seconds of them leading / trailing silence
LoadedSecs(profile) == IF profile = "empty" THEN 0 ELSE IF profile = "padded" THEN 3 ELSE 2

Silence(profile) == IF profile = "padded" THEN 1 ELSE 0

NativeRate(profile, target_sr) ==
    IF profile \in {"other_rate", "resample_fails"} THEN OtherRate(target_sr) ELSE target_sr

\* audio, sr = librosa.load(input_path, sr=None, mono=True)
ProcessLoad ==
    /\ pa.pc = "load"
    /\ pa' = IF pa.profile = "load_fails" THEN RaiseIn(pa, "load")
             ELSE LET sr == NativeRate(pa.profile, args.sample_rate)
                  IN [Did(pa, "load", "resample") EXCEPT
                         !.sr = sr, !.secs = LoadedSecs(pa.profile),
                         !.original_sr = sr,
                         !.original_duration = LoadedSecs(pa.profile)]
    /\ UNCHANGED <<toolVars, ctorArgs, splitter, corpus, history, rngMemo, args, world, pc, dirIdx,
                   ld, all_samples, parts, total_duration, dirsMade, audioFiles,
                   manifests, stats, log, calls, exc, odd>>

\* if sr != self.target_sr: audio = librosa.resample(...); sr = self.target_sr
ProcessResample ==
    /\ pa.pc = "resample"
    /\ pa' = IF pa.sr # args.sample_rate
             THEN IF pa.profile = "resample_fails" THEN RaiseIn(pa, "resample")
                  ELSE [Did(pa, "resample", "normalize") EXCEPT !.sr = args.sample_rate]
             ELSE [pa EXCEPT !.pc = "normalize"]
    /\ UNCHANGED <<toolVars, ctorArgs, splitter, corpus, history, rngMemo, args, world, pc, dirIdx,
                   ld, all_samples, parts, total_duration, dirsMade, audioFiles,
                   manifests, stats, log, calls, exc, odd>>

\* audio = self.normalize_audio(audio): np.abs(audio).max() of an empty buffer
\* raises ValueError
ProcessNormalize ==
    /\ pa.pc = "normalize"
    /\ pa' = IF pa.secs = 0 THEN RaiseIn(pa, "normalize")
             ELSE Did(pa, "normalize", "trim")
    /\ UNCHANGED <<toolVars, ctorArgs, splitter, corpus, history, rngMemo, args, world, pc, dirIdx,
                   ld, all_samples, parts, total_duration, dirsMade, audioFiles,
                   manifests, stats, log, calls, exc, odd>>

\* audio = self.trim_silence(audio)
ProcessTrim ==
    /\ pa.pc = "trim"
    /\ pa' = IF pa.profile = "trim_fails" THEN RaiseIn(pa, "trim")
             ELSE [Did(pa, "trim", "mkdir") EXCEPT !.secs = @ - Silence(pa.profile)]
    /\ UNCHANGED <<toolVars, ctorArgs, splitter, corpus, history, rngMemo, args, world, pc, dirIdx,
                   ld, all_samples, parts, total_duration, dirsMade, audioFiles,
                   manifests, stats, log, calls, exc, odd>>

\* Path(output_path).parent.mkdir(parents=True, exist_ok=True)
ProcessMkdir ==
    /\ pa.pc = "mkdir"
    /\ IF pa.profile = "mkdir_fails"
       THEN pa' = RaiseIn(pa, "mkdir") /\ UNCHANGED dirsMade
       ELSE /\ pa' = Did(pa, "mkdir", "write")
            /\ dirsMade' = dirsMade \cup {pa.output_path.dir}
    /\ UNCHANGED <<toolVars, ctorArgs, splitter, corpus, history, rngMemo, args, world, pc, dirIdx,
                   ld, all_samples, parts, total_duration, audioFiles,
                   manifests, stats, log, calls, exc, odd>>

\* sf.write(output_path, audio, sr) and the return of the statistics
ProcessWrite ==
    /\ pa.pc = "write"
    /\ IF pa.profile = "write_fails"
       THEN pa' = RaiseIn(pa, "write") /\ UNCHANGED audioFiles
       ELSE /\ audioFiles' = Put(audioFiles, PathStr(pa.output_path),
                                 [sr |-> pa.sr, secs |-> pa.secs])
            /\ pa' = [Did(pa, "write", "done") EXCEPT
                         !.result = [success |-> TRUE,
                                     duration |-> pa.secs,
                                     original_sr |-> pa.original_sr,
                                     original_duration |-> pa.original_duration,
                                     trimmed_seconds |-> pa.original_duration - pa.secs]]
    /\ UNCHANGED <<toolVars, ctorArgs, splitter, corpus, history, rngMemo, args, world, pc, dirIdx,
                   ld, all_samples, parts, total_duration, dirsMade,
                   manifests, stats, log, calls, exc, odd>>

ProcessAudio ==
    \/ ProcessLoad
    \/ ProcessResample
    \/ ProcessNormalize
    \/ ProcessTrim
    \/ ProcessMkdir
    \/ ProcessWrite

----------------------------------------------------------------------------
(* load_openslr_data *)

NoRecord == [path |-> "", transcript |-> "", speaker |-> "", locale |-> ""]

NoLine == [profile |-> "", input |-> "", temp |-> "", record |-> NoRecord]

NoLoader ==
    [fn |-> "none", pc |-> "", data_dir |-> "", split |-> 0, i |-> 0, k |-> 0,
     samples |-> <<>>, outcomes |-> <<>>, cur |-> NoLine]

StartLoader(fn, first_pc, data_dir) ==
    [NoLoader EXCEPT !.fn = fn, !.pc = first_pc, !.data_dir = data_dir, !.split = 1]

\* the underscore-separated parts of the audio id of line k
AudioIdParts(profile, k) ==
    IF profile = "shared_speaker" THEN <<"S1", "u" \o ToString(k)>>
    ELSE IF profile = "no_underscore" THEN <<"u" \o ToString(k)>>
    ELSE <<"S" \o ToString(k), "u" \o ToString(k)>>

RECURSIVE JoinFrom(_, _, _)
JoinFrom(ps, i, sep) ==
    IF i > Len(ps) THEN ""
    ELSE (IF i = 1 THEN "" ELSE sep) \o ps[i] \o JoinFrom(ps, i + 1, sep)

Join(ps, sep) == JoinFrom(ps, 1, sep)

\* the line of transcripts.txt read as line k of this call, with its paths,
\* and the record line 251-256 makes of it
OpenslrLine(data_dir, split_dir, profile, k) ==
    LET ps == AudioIdParts(profile, k)
        audio_id == Join(ps, "_")
        audio_path == [dir |-> data_dir \o "/" \o split_dir \o "/audio",
                       name |-> audio_id \o ".wav"]
        output_path == [dir |-> ProcessedAudioDir \o "/openslr/" \o split_dir,
                        name |-> audio_id \o ".wav"]
    IN [profile |-> profile, input |-> PathStr(audio_path), temp |-> "",
        output_path |-> output_path,
        record |-> [path |-> PathStr(output_path),
                    transcript |-> "t" \o ToString(k),
                    speaker |-> ps[1],               \* audio_id.split('_')[0]
                    locale |-> "bn-BD"]]

\* how the handling of one record ended: with the record appended (success), or
\* with the error that kept it out
Outcome(line, success, error) ==
    [input |-> line.input, success |-> success, error |-> error, record |-> line.record]

\* the outcome of a record whose process_audio call returned p.result
Processed(line, p) ==
    Outcome(line, p.result.success, IF p.result.success THEN "" ELSE p.result.error)

\* for split_dir in ["train", "valid", "test"]: lines 223-234
OpenslrSplitDir ==
    /\ ld.fn = "openslr" /\ ld.pc = "dir" /\ ld.split <= Len(SplitDirs)
    /\ LET d == world.openslr[ld.split]
           transcript_file == ld.data_dir \o "/" \o SplitDirs[ld.split] \o "/transcripts.txt"
       IN IF d.state = "missing"
          THEN ld' = [ld EXCEPT !.split = @ + 1] /\ UNCHANGED log
          ELSE IF d.state = "no_transcripts"
          THEN /\ ld' = [ld EXCEPT !.split = @ + 1]
               /\ log' = Append(log, Msg("Warning: not found, skipping", transcript_file, ""))
          ELSE ld' = [ld EXCEPT !.pc = "lines", !.i = 0] /\ UNCHANGED log
    /\ UNCHANGED <<toolVars, ctorArgs, splitter, corpus, history, rngMemo, args, world, pc, dirIdx,
                   pa, all_samples, parts, total_duration, dirsMade, audioFiles,
                   manifests, stats, calls, exc, odd>>

\* for line in f: lines 235-248, up to the call of process_audio
OpenslrReadLine ==
    /\ ld.fn = "openslr" /\ ld.pc = "lines" /\ pa.pc = "idle"
    /\ IF ld.i = world.openslr[ld.split].lines
       THEN /\ ld' = [ld EXCEPT !.split = @ + 1, !.pc = "dir"]
            /\ UNCHANGED <<pa, odd>>
       ELSE \E profile \in OpenslrProfiles \cap world.profiles :
              /\ profile # "plain" => odd < MaxOdd
              /\ odd' = IF profile = "plain" THEN odd ELSE odd + 1
              /\ IF profile \in {"short", "noaudio"}
                 THEN /\ ld' = [ld EXCEPT !.i = @ + 1, !.k = @ + 1]
                      /\ UNCHANGED pa
                 ELSE LET line == OpenslrLine(ld.data_dir, SplitDirs[ld.split],
                                              profile, ld.k + 1)
                      IN /\ ld' = [ld EXCEPT !.k = @ + 1, !.pc = "call", !.cur = line]
                         /\ pa' = StartProcess(line.input, line.output_path, profile)
    /\ UNCHANGED <<toolVars, ctorArgs, splitter, corpus, history, rngMemo, args, world, pc, dirIdx,
                   all_samples, parts, total_duration, dirsMade, audioFiles,
                   manifests, stats, log, calls, exc>>

\* lines 250-256: if result["success"]: samples.append({...})
OpenslrAppend ==
    /\ ld.fn = "openslr" /\ ld.pc = "call" /\ pa.pc \in {"done", "propagated"}
    /\ pa' = IdleProcess
    /\ IF pa.pc = "propagated"
       THEN /\ pc' = "raised"
            /\ exc' = pa.raised
            /\ ld' = NoLoader
       ELSE /\ ld' = [ld EXCEPT
                        !.samples = IF pa.result.success THEN Append(@, ld.cur.record) ELSE @,
                        !.outcomes = Append(@, Processed(ld.cur, pa)),
                        !.i = @ + 1, !.pc = "lines", !.cur = NoLine]
            /\ UNCHANGED <<pc, exc>>
    /\ UNCHANGED <<toolVars, ctorArgs, splitter, corpus, history, rngMemo, args, world, dirIdx,
                   all_samples, parts, total_duration, dirsMade, audioFiles,
                   manifests, stats, log, calls, odd>>

\* what main and the run's record keep of a loader call that returned
CallRecord(l, total) ==
    [fn |-> l.fn, samples |-> l.samples, read |-> l.k, total |-> total,
     outcomes |-> l.outcomes]

\* lines 258-259 and main's all_samples.extend(samples)
OpenslrReturn ==
    /\ ld.fn = "openslr" /\ ld.pc = "dir" /\ ld.split > Len(SplitDirs)
    /\ log' = Append(log, Msg("Loaded samples from OpenSLR", "", ""))
    /\ calls' = Append(calls, CallRecord(ld, TotalLines(world.openslr)))
    /\ all_samples' = all_samples \o ld.samples
    /\ ld' = NoLoader
    /\ dirIdx' = dirIdx + 1
    /\ pc' = "input_dir"
    /\ UNCHANGED <<toolVars, ctorArgs, splitter, corpus, history, rngMemo, args, world,
                   pa, parts, total_duration, dirsMade, audioFiles,
                   manifests, stats, exc, odd>>

----------------------------------------------------------------------------
(* load_common_voice_data *)

TempDir == ProcessedAudioDir \o "/temp"

\* sample i (from 0) of a split, read as sample k of this call
CvSample(split_name, profile, i, k) ==
    LET name == "cv_" \o ToString(i) \o ".wav"
        temp_audio_path == [dir |-> TempDir, name |-> name]
        output_path == [dir |-> ProcessedAudioDir \o "/common_voice/" \o split_name,
                        name |-> name]
    IN [profile |-> profile, input |-> PathStr(temp_audio_path),
        temp |-> PathStr(temp_audio_path), output_path |-> output_path,
        record |-> [path |-> PathStr(output_path),
                    transcript |-> "t" \o ToString(k),
                    \* sample.get("client_id", f"speaker_{i}")
                    speaker |-> IF profile = "no_client_id" THEN "speaker_" \o ToString(i)
                                ELSE IF profile = "shared_speaker" THEN "C1"
                                ELSE "C" \o ToString(k),
                    locale |-> "bn"]]

\* except Exception as e: print(f"  Error loading Common Voice: {str(e)}")
CvExcept(l, e) == [l EXCEPT !.pc = "return", !.cur = NoLine]

CvErrorMsg(e) == Msg("Error loading Common Voice", "", e.msg)

\* dataset = load_from_disk(str(data_dir))
CvOpen ==
    /\ ld.fn = "common_voice" /\ ld.pc = "open"
    /\ IF world.common_voice.loadable
       THEN ld' = [ld EXCEPT !.pc = "split"] /\ UNCHANGED log
       ELSE LET e == [type |-> "FileNotFoundError", msg |-> "load_from_disk: not a dataset"]
            IN ld' = CvExcept(ld, e) /\ log' = Append(log, CvErrorMsg(e))
    /\ UNCHANGED <<toolVars, ctorArgs, splitter, corpus, history, rngMemo, args, world, pc, dirIdx,
                   pa, all_samples, parts, total_duration, dirsMade, audioFiles,
                   manifests, stats, calls, exc, odd>>

\* for split_name in ["train", "validation", "test"]: lines 284-288, and 316
CvSplit ==
    /\ ld.fn = "common_voice" /\ ld.pc = "split"
    /\ IF ld.split > Len(CvSplitNames)
       THEN /\ ld' = [ld EXCEPT !.pc = "return"]
            /\ log' = Append(log, Msg("Loaded samples from Common Voice", "", ""))
       ELSE /\ ld' = IF world.common_voice.splits[ld.split].state = "ok"
                     THEN [ld EXCEPT !.pc = "samples", !.i = 0]
                     ELSE [ld EXCEPT !.split = @ + 1]
            /\ UNCHANGED log
    /\ UNCHANGED <<toolVars, ctorArgs, splitter, corpus, history, rngMemo, args, world, pc, dirIdx,
                   pa, all_samples, parts, total_duration, dirsMade, audioFiles,
                   manifests, stats, calls, exc, odd>>

\* for i, sample in enumerate(split_data): lines 290-303, up to process_audio
CvReadSample ==
    /\ ld.fn = "common_voice" /\ ld.pc = "samples" /\ pa.pc = "idle"
    /\ IF ld.i = world.common_voice.splits[ld.split].lines
       THEN /\ ld' = [ld EXCEPT !.split = @ + 1, !.pc = "split"]
            /\ UNCHANGED <<pa, odd, dirsMade, audioFiles, log>>
       ELSE \E profile \in CvProfiles \cap world.profiles :
              /\ profile # "plain" => odd < MaxOdd
              /\ odd' = IF profile = "plain" THEN odd ELSE odd + 1
              /\ dirsMade' = dirsMade \cup {TempDir}
              /\ LET sample == CvSample(CvSplitNames[ld.split], profile, ld.i, ld.k + 1)
                 IN IF profile = "temp_write_fails"
                    THEN LET e == [type |-> "OSError", msg |-> "write: no space left"]
                         IN /\ ld' = CvExcept([ld EXCEPT !.k = @ + 1,
                                   !.outcomes = Append(@, Outcome(sample, FALSE, e.msg))], e)
                            /\ log' = Append(log, CvErrorMsg(e))
                            /\ UNCHANGED <<pa, audioFiles>>
                    ELSE /\ audioFiles' =
                              Put(audioFiles, sample.temp,
                                  [sr |-> NativeRate(profile, args.sample_rate),
                                   secs |-> LoadedSecs(profile)])
                         /\ ld' = [ld EXCEPT !.k = @ + 1, !.pc = "call", !.cur = sample]
                         /\ pa' = StartProcess(sample.input, sample.output_path, profile)
                         /\ UNCHANGED log
    /\ UNCHANGED <<toolVars, ctorArgs, splitter, corpus, history, rngMemo, args, world, pc, dirIdx,
                   all_samples, parts, total_duration, manifests, stats, calls, exc>>

\* lines 305-314: temp_audio_path.unlink(); if result["success"]: samples.append
CvAppend ==
    /\ ld.fn = "common_voice" /\ ld.pc = "call" /\ pa.pc \in {"done", "propagated"}
    /\ pa' = IdleProcess
    /\ IF pa.pc = "propagated"
       THEN /\ ld' = CvExcept([ld EXCEPT !.outcomes =
                                  Append(@, Outcome(ld.cur, FALSE, pa.raised.msg))],
                                pa.raised)
            /\ log' = Append(log, CvErrorMsg(pa.raised))
            /\ UNCHANGED audioFiles
       ELSE IF ld.cur.profile = "unlink_fails"
       THEN LET e == [type |-> "PermissionError", msg |-> "unlink: permission denied"]
            IN /\ ld' = CvExcept([ld EXCEPT !.outcomes =
                                      Append(@, Outcome(ld.cur, FALSE, e.msg))], e)
               /\ log' = Append(log, CvErrorMsg(e))
               /\ UNCHANGED audioFiles
       ELSE /\ audioFiles' = Remove(audioFiles, ld.cur.temp)
            /\ IF pa.result.success /\ ld.cur.profile = "no_sentence"
               THEN \* transcript.strip() of None
                    LET e == [type |-> "AttributeError", msg |-> "NoneType has no strip"]
                    IN /\ ld' = CvExcept([ld EXCEPT !.outcomes =
                                                Append(@, Outcome(ld.cur, FALSE, e.msg))], e)
                       /\ log' = Append(log, CvErrorMsg(e))
               ELSE /\ ld' = [ld EXCEPT
                               !.samples = IF pa.result.success
                                           THEN Append(@, ld.cur.record) ELSE @,
                               !.outcomes = Append(@, Processed(ld.cur, pa)),
                               !.i = @ + 1, !.pc = "samples",
                               !.cur = NoLine]
                    /\ UNCHANGED log
    /\ UNCHANGED <<toolVars, ctorArgs, splitter, corpus, history, rngMemo, args, world, pc, dirIdx,
                   all_samples, parts, total_duration, dirsMade,
                   manifests, stats, calls, exc, odd>>

\* return samples, and main's all_samples.extend(samples)
CvReturn ==
    /\ ld.fn = "common_voice" /\ ld.pc = "return"
    /\ calls' = Append(calls, CallRecord(ld, IF world.common_voice.loadable
                                           THEN TotalLines(world.common_voice.splits)
                                           ELSE 0))
    /\ all_samples' = all_samples \o ld.samples
    /\ ld' = NoLoader
    /\ dirIdx' = dirIdx + 1
    /\ pc' = "input_dir"
    /\ UNCHANGED <<toolVars, ctorArgs, splitter, corpus, history, rngMemo, args, world,
                   pa, parts, total_duration, dirsMade, audioFiles,
                   manifests, stats, log, exc, odd>>

----------------------------------------------------------------------------
(* save_tsv and main *)

NoParts == [status |-> "none", train |-> <<>>, valid |-> <<>>, test |-> <<>>]

Header == <<"path", "transcript", "speaker", "locale">>

\* the rows save_tsv writes: the header, then one row per sample
Rows(data) ==
    <<Header>> \o [i \in 1..Len(data) |->
                     <<data[i].path, data[i].transcript, data[i].speaker, data[i].locale>>]

\* DatasetSplitter(train_ratio=0.8, valid_ratio=0.1, test_ratio=0.1)
MainSplitterArgs ==
    [train_ratio |-> F(8 * Tenth), valid_ratio |-> F(Tenth), test_ratio |-> F(Tenth),
     random_seed |-> DefaultSeed]

\* lines 429-430: train_test_split(all_samples, test_size=0.2, random_state=42),
\* then train_test_split(temp_data, test_size=0.5, random_state=42)
RandomSplitRuns(data, memo) ==
    LET ts1 == Quot("f", 2 * Tenth, Scale)
        ts2 == Quot("f", 5 * Tenth, Scale)
        n == Len(data)
    IN IF ~SplitValid(n, ts1)
       THEN {[out |-> Raised("ValueError"), memo |-> memo]}
       ELSE UNION {
         LET first == TrainTestSplit(data, ts1, p1)
             memo1 == Remember(memo, DefaultSeed, n, p1)
             n2 == Len(first.test)
         IN IF ~SplitValid(n2, ts2)
            THEN {[out |-> Raised("ValueError"), memo |-> memo1]}
            ELSE { LET second == TrainTestSplit(first.test, ts2, p2)
                   IN [out |-> [status |-> "returned", train |-> first.train,
                                valid |-> second.train, test |-> second.test],
                       memo |-> Remember(memo1, DefaultSeed, n2, p2)] :
                   p2 \in ShuffleChoices(memo1, DefaultSeed, n2) }
         : p1 \in ShuffleChoices(memo, DefaultSeed, n) }

\* train_data[:100]
DurationSample == 100

Min(a, b) == IF a < b THEN a ELSE b

RECURSIVE SumSecs(_, _, _)
\* sum of librosa.get_duration(path=sample["path"]) over list[i..n]
SumSecs(files, list, n) ==
    IF n = 0 THEN 0
    ELSE files[list[n].path].secs + SumSecs(files, list, n - 1)

\* sum([... for sample in train_data[:100]]) * (len(train_data) / 100),
\* in hundredths of a second
EstimatedDuration(files, train_data) ==
    SumSecs(files, train_data, Min(Len(train_data), DurationSample))
        * Len(train_data) * (100 \div DurationSample)

\* for input_dir in args.input_dirs: lines 403-419
MainInputDir ==
    /\ pc = "input_dir" /\ ld.fn = "none"
    /\ IF dirIdx > Len(args.input_dirs)
       THEN pc' = "split" /\ UNCHANGED <<ld, dirIdx, log>>
       ELSE LET d == args.input_dirs[dirIdx]
            IN IF d.kind = "openslr"
               THEN /\ ld' = StartLoader("openslr", "dir", d.name)
                    /\ log' = Append(log, Msg("Processing OpenSLR SLR53", d.name, ""))
                    /\ pc' = "loading"
                    /\ UNCHANGED dirIdx
               ELSE IF d.kind = "common_voice"
               THEN /\ ld' = StartLoader("common_voice", "open", d.name)
                    /\ log' = Append(log, Msg("Processing Common Voice", d.name, ""))
                    /\ pc' = "loading"
                    /\ UNCHANGED dirIdx
               ELSE /\ dirIdx' = dirIdx + 1
                    /\ UNCHANGED <<pc, ld, log>>
    /\ UNCHANGED <<toolVars, ctorArgs, splitter, corpus, history, rngMemo, args, world,
                   pa, all_samples, parts, total_duration, dirsMade, audioFiles,
                   manifests, stats, calls, exc, odd>>

\* lines 421-434: the speaker-level split, or the random split
MainSplit ==
    /\ pc = "split"
    /\ IF args.speaker_split
       THEN LET sp == Construct(MainSplitterArgs)
            IN /\ splitter' = sp
               /\ IF sp.status # "ok"
                  THEN /\ pc' = "raised"
                       /\ exc' = [type |-> "AssertionError", msg |-> "Ratios must sum to 1.0"]
                       /\ UNCHANGED <<parts, rngMemo>>
                  ELSE \E run \in SplitBySpeakerRuns(sp, all_samples, rngMemo) :
                         /\ rngMemo' = run.memo
                         /\ IF run.out.status = "returned"
                            THEN parts' = run.out /\ pc' = "duration" /\ UNCHANGED exc
                            ELSE /\ pc' = "raised"
                                 /\ exc' = [type |-> run.out.status, msg |-> "split_by_speaker"]
                                 /\ UNCHANGED parts
       ELSE /\ UNCHANGED splitter
            /\ \E run \in RandomSplitRuns(all_samples, rngMemo) :
                 /\ rngMemo' = run.memo
                 /\ IF run.out.status = "returned"
                    THEN parts' = run.out /\ pc' = "duration" /\ UNCHANGED exc
                    ELSE /\ pc' = "raised"
                         /\ exc' = [type |-> run.out.status, msg |-> "train_test_split"]
                         /\ UNCHANGED parts
    /\ UNCHANGED <<toolVars, ctorArgs, corpus, history, args, world, dirIdx, ld,
                   pa, all_samples, total_duration, dirsMade, audioFiles,
                   manifests, stats, log, calls, odd>>

\* lines 436-442
MainDuration ==
    /\ pc = "duration"
    /\ total_duration' = EstimatedDuration(audioFiles, parts.train)
    /\ pc' = "save_train"
    /\ UNCHANGED <<toolVars, ctorArgs, splitter, corpus, history, rngMemo, args, world, dirIdx, ld,
                   pa, all_samples, parts, dirsMade, audioFiles,
                   manifests, stats, log, calls, exc, odd>>

\* save_tsv(data, output_dir / name)
SaveTsv(name, data, next) ==
    /\ dirsMade' = dirsMade \cup {OutputDir}
    /\ manifests' = Put(manifests, name, Rows(data))
    /\ log' = Append(log, Msg("Saved samples", OutputDir \o "/" \o name, ""))
    /\ pc' = next

\* lines 444-448
MainSaveSplits ==
    /\ pc \in {"save_train", "save_valid", "save_test"}
    /\ CASE pc = "save_train" -> SaveTsv("train.tsv", parts.train, "save_valid")
         [] pc = "save_valid" -> SaveTsv("valid.tsv", parts.valid, "save_test")
         [] pc = "save_test" -> SaveTsv("test.tsv", parts.test, "stats")
    /\ UNCHANGED <<toolVars, ctorArgs, splitter, corpus, history, rngMemo, args, world, dirIdx, ld,
                   pa, all_samples, parts, total_duration, audioFiles,
                   stats, calls, exc, odd>>

\* statistics that count every record read, processed or not
MainSaveStatsOfRecordsRead ==
    /\ pc = "stats"
    /\ stats' = << [total_samples |-> Cardinality({ p \in (DOMAIN calls) \X (1..MaxLines) :
                                                     p[2] \in DOMAIN calls[p[1]].outcomes }),
                    train_samples |-> Len(parts.train),
                    valid_samples |-> Len(parts.valid),
                    test_samples |-> Len(parts.test),
                    estimated_hours |-> total_duration,
                    target_sr |-> args.sample_rate,
                    speaker_split |-> args.speaker_split] >>
    /\ pc' = "done"
    /\ UNCHANGED <<toolVars, ctorArgs, splitter, corpus, history, rngMemo, args, world, dirIdx, ld,
                   pa, all_samples, parts, total_duration, dirsMade, audioFiles,
                   manifests, log, calls, exc, odd>>

\* lines 450-463; estimated_hours is kept in hundredths of a second
MainSaveStats ==
    /\ pc = "stats"
    /\ stats' = << [total_samples |-> Len(all_samples),
                    train_samples |-> Len(parts.train),
                    valid_samples |-> Len(parts.valid),
                    test_samples |-> Len(parts.test),
                    estimated_hours |-> total_duration,
                    target_sr |-> args.sample_rate,
                    speaker_split |-> args.speaker_split] >>
    /\ pc' = "done"
    /\ UNCHANGED <<toolVars, ctorArgs, splitter, corpus, history, rngMemo, args, world, dirIdx, ld,
                   pa, all_samples, parts, total_duration, dirsMade, audioFiles,
                   manifests, log, calls, exc, odd>>

----------------------------------------------------------------------------
(* augment.py: AudioAugmenter.augment_audio and augment_dataset *)

\* the techniques argument: names in any order, repeated, or unknown
TechniqueLists ==
    { <<>>, <<"speed">>, <<"pitch">>, <<"speed", "noise">>, <<"noise", "speed">>,
      <<"volume", "volume">>, <<"speed", "noise", "volume">> }

\* a name that is not the first of the list is overlooked
RequestedFirst(techniques, name) == techniques # <<>> /\ techniques[1] = name

\* "name" in techniques
Requested(techniques, name) == \E i \in DOMAIN techniques : techniques[i] = name

\* one transform and the write of its result, per parameter of a technique:
\* for speed in [0.9, 1.1], for noise_level in [0.003, 0.007], for gain in [-3, 3]
StepsOf(technique) ==
    LET v == CASE technique = "speed" ->
                    << [file |-> "_speed0.9.wav", tag |-> "speed_0.9"],
                       [file |-> "_speed1.1.wav", tag |-> "speed_1.1"] >>
               [] technique = "noise" ->
                    << [file |-> "_noise0.003.wav", tag |-> "noise_0.003"],
                       [file |-> "_noise0.007.wav", tag |-> "noise_0.007"] >>
               [] technique = "volume" ->
                    << [file |-> "_vol-3db.wav", tag |-> "volume_-3db"],
                       [file |-> "_vol3db.wav", tag |-> "volume_3db"] >>
    IN << [op |-> technique, file |-> v[1].file, tag |-> v[1].tag],
          [op |-> "write", file |-> v[1].file, tag |-> v[1].tag],
          [op |-> technique, file |-> v[2].file, tag |-> v[2].tag],
          [op |-> "write", file |-> v[2].file, tag |-> v[2].tag] >>

\* the steps of one augment_audio call, lines 147-181
AugmentSteps(techniques) ==
    << [op |-> "load", file |-> "", tag |-> ""],
       [op |-> "mkdir", file |-> "", tag |-> ""],
       [op |-> "write", file |-> "_original.wav", tag |-> "original"] >>
    \o (IF Requested(techniques, "speed") THEN StepsOf("speed") ELSE <<>>)
    \o (IF Requested(techniques, "noise") THEN StepsOf("noise") ELSE <<>>)
    \o (IF Requested(techniques, "volume") THEN StepsOf("volume") ELSE <<>>)

\* a row of the manifest an augmentation run reads: utterance k of a speaker,
\* processed into the directory of one split of the OpenSLR data
AugSample(k, speaker, split_dir) ==
    [path |-> ProcessedAudioDir \o "/openslr/" \o split_dir \o "/"
                  \o speaker \o "_u" \o ToString(k) \o ".wav",
     transcript |-> "t" \o ToString(k), speaker |-> speaker, locale |-> "bn-BD"]

\* the manifests an augmentation run reads: row k is utterance k of its speaker
\* under train/, or the last row is the file that has the name of row 1's file
\* under valid/; the paths of a manifest are pairwise distinct
InputManifests ==
    UNION { { [k \in 1..n |-> AugSample(k, f[k], "train")] : f \in [1..n -> {"A", "B"}] }
            \cup { [k \in 1..n |-> IF k = n THEN AugSample(1, f[1], "valid")
                                   ELSE AugSample(k, f[k], "train")] :
                     f \in { g \in [1..n -> {"A", "B"}] : n >= 2 /\ g[n] = g[1] } } :
            n \in 0..MaxAugRecords }

\* the files process_audio can have written, each with Path(file).stem: the
\* names the loaders and AugSample give, in the directories of the splits
ProcessedFiles ==
    LET numbers == { ToString(k) : k \in 0..(MaxLines + MaxAugRecords) }
        stems == UNION { { "A_u" \o k, "B_u" \o k, "S1_u" \o k, "S" \o k \o "_u" \o k,
                           "u" \o k, "cv_" \o k } : k \in numbers }
        dirs == { ProcessedAudioDir \o "/openslr/" \o SplitDirs[i] : i \in DOMAIN SplitDirs }
                \cup { ProcessedAudioDir \o "/common_voice/" \o CvSplitNames[i] :
                         i \in DOMAIN CvSplitNames }
    IN { [path |-> d \o "/" \o s \o ".wav", stem |-> s] : d \in dirs, s \in stems }

\* Path(audio_path).stem
Stem(audio_path) == (CHOOSE f \in ProcessedFiles : f.path = audio_path).stem

\* augment_audio(audio_path, output_dir, techniques) in which step failAt
\* raises (0: none does): the files written, and the list returned
AugmentAudio(audio_path, output_dir, techniques, failAt) ==
    LET steps == AugmentSteps(techniques)
        done == IF failAt = 0 THEN steps ELSE SubSeq(steps, 1, failAt - 1)
        writes == SelectSeq(done, LAMBDA s : s.op = "write")
    IN [returned |-> failAt = 0,
        error |-> IF failAt = 0 THEN "" ELSE steps[failAt].op,
        techniques |-> techniques,
        augmented_files |->
            [i \in 1..Len(writes) |->
                [path |-> output_dir \o "/" \o Stem(audio_path) \o writes[i].file,
                 tag |-> writes[i].tag]]]

\* the record appended for one augmented file keeps the speaker of its source
DerivedKeepsSpeaker(sample, aug_path, aug_type) ==
    [path |-> aug_path, transcript |-> sample.transcript,
     speaker |-> sample.speaker, locale |-> sample.locale]

\* the record appended for one augmented file, lines 233-238
Derived(sample, aug_path, aug_type) ==
    [path |-> aug_path, transcript |-> sample.transcript,
     speaker |-> sample.speaker \o "_" \o aug_type, locale |-> sample.locale]

\* --augment_ratio, as a fraction n/d
AugmentRatios ==
    { [n |-> 0, d |-> 1], [n |-> 1, d |-> 2], [n |-> 1, d |-> 1], [n |-> 3, d |-> 2] }

\* the count rounded up instead of cut
NumToAugmentCeil(n, ratio) == (n * ratio.n + ratio.d - 1) \div ratio.d

\* int(len(samples) * augment_ratio)
NumToAugment(n, ratio) == (n * ratio.n) \div ratio.d

\* random.sample(samples, k) of the module-level generator, which nothing
\* seeds: any k distinct positions, in any order
Samplings(n, k) ==
    { s \in [1..k -> 1..n] : \A a, b \in 1..k : a # b => s[a] # s[b] }

AugOutputDir == "augmented/audio"

\* what is wrong with the data of a run: the row whose augmentation fails and
\* the step of augment_audio that raises for it (row 0: nothing is wrong)
Faults(n, techniques) ==
    LET last == Len(AugmentSteps(techniques))
    IN {[row |-> 0, step |-> 0]} \cup
       [row : 1..n, step : {1, 2, 3} \cup (IF last > 3 THEN {4, last} ELSE {})]

\* AudioAugmenter.__init__(self, sr=16000, seed=42): the rate of an augmenter
\* that is built without arguments
AugmenterSr == 16000

NoAug ==
    [pc |-> "none", sr |-> 0, samples |-> <<>>, techniques |-> <<>>,
     ratio |-> [n |-> 0, d |-> 1],
     fault |-> [row |-> 0, step |-> 0], selected |-> <<>>, i |-> 0, augmented_samples |-> <<>>, origin |-> <<>>,
     call |-> [returned |-> FALSE, error |-> "", techniques |-> <<>>,
               augmented_files |-> <<>>],
     files |-> {}, output |-> <<>>, error |-> ""]

\* lines 198-213: build the augmenter, which loads and writes audio at its
\* rate self.sr, read the manifest and select the samples to augment
AugSelect ==
    /\ aug.pc = "start"
    /\ LET n == Len(aug.samples)
           k == NumToAugment(n, aug.ratio)
       IN IF k > n
          THEN /\ aug' = [aug EXCEPT !.pc = "raised", !.sr = AugmenterSr,
                                     !.error = "sample"]
               /\ augHistory' = Append(augHistory,
                                       [pc |-> "raised", selected |-> <<>>, output |-> <<>>])
          ELSE /\ \E s \in Samplings(n, k) :
                     aug' = [aug EXCEPT !.pc = "loop", !.sr = AugmenterSr,
                                        !.selected = s, !.i = 1]
               /\ UNCHANGED augHistory
    /\ UNCHANGED <<sig, tsv>>
    /\ UNCHANGED <<ctorArgs, splitter, corpus, history, rngMemo>>
    /\ UNCHANGED pipeVars

\* lines 218-238: one selected sample: augment_audio, then one record per file
AugmentOne ==
    /\ aug.pc = "loop" /\ aug.i <= Len(aug.selected)
    /\ LET sample == aug.samples[aug.selected[aug.i]]
           failAt == IF aug.selected[aug.i] = aug.fault.row THEN aug.fault.step ELSE 0
       IN \E run \in { AugmentAudio(sample.path, AugOutputDir \o "/" \o sample.speaker,
                                     aug.techniques, failAt) } :
            LET files == aug.files \cup
                           { run.augmented_files[j].path : j \in DOMAIN run.augmented_files }
            IN IF run.returned
               THEN /\ aug' = [aug EXCEPT
                         !.call = run, !.files = files, !.i = @ + 1,
                         !.augmented_samples = @ \o
                             [j \in DOMAIN run.augmented_files |->
                                 Derived(sample, run.augmented_files[j].path,
                                         run.augmented_files[j].tag)],
                         !.origin = @ \o
                             [j \in DOMAIN run.augmented_files |->
                                 [source |-> aug.selected[aug.i],
                                  file |-> run.augmented_files[j]]]]
                    /\ UNCHANGED augHistory
               ELSE /\ aug' = [aug EXCEPT !.call = run, !.files = files,
                                          !.pc = "raised", !.error = run.error]
                    /\ augHistory' = Append(augHistory,
                            [pc |-> "raised", selected |-> aug.selected, output |-> <<>>])
    /\ UNCHANGED <<sig, tsv>>
    /\ UNCHANGED <<ctorArgs, splitter, corpus, history, rngMemo>>
    /\ UNCHANGED pipeVars

\* lines 240-255: write the source rows followed by the augmented rows
AugSave ==
    /\ aug.pc = "loop" /\ aug.i > Len(aug.selected)
    /\ LET all_samples_out == aug.samples \o aug.augmented_samples
       IN /\ aug' = [aug EXCEPT !.pc = "done", !.output = <<all_samples_out>>]
          /\ augHistory' = Append(augHistory,
                 [pc |-> "done", selected |-> aug.selected, output |-> <<all_samples_out>>])
    /\ UNCHANGED <<sig, tsv>>
    /\ UNCHANGED <<ctorArgs, splitter, corpus, history, rngMemo>>
    /\ UNCHANGED pipeVars

\* DatasetSplitter().split_by_speaker(...) on the records of the manifest a
\* finished run wrote, as long as the shuffle of its speakers is known
AugSplit ==
    /\ aug.pc = "done" /\ history = <<>>
    /\ Len(SpeakerOrder(aug.output[1])) <= Len(Seed42Permutation)
    /\ \E run \in SplitBySpeakerRuns(Construct(MainSplitterArgs), aug.output[1], rngMemo) :
          /\ history' = Append(history, [data |-> aug.output[1], out |-> run.out])
          /\ rngMemo' = run.memo
    /\ UNCHANGED <<ctorArgs, splitter, corpus>>
    /\ UNCHANGED pipeVars
    /\ UNCHANGED toolVars

\* python augment.py run once more with the same arguments on the same manifest
AugRunAgain ==
    /\ aug.pc = "done"
    /\ Len(augHistory) < MaxAugRuns
    /\ aug' = [NoAug EXCEPT !.pc = "start", !.samples = aug.samples,
                            !.techniques = aug.techniques, !.ratio = aug.ratio,
                            !.fault = aug.fault,
                            !.files = aug.files]
    /\ UNCHANGED <<augHistory, sig, tsv>>
    /\ UNCHANGED <<ctorArgs, splitter, corpus, history, rngMemo>>
    /\ UNCHANGED pipeVars

\* main of augment.py, lines 258-335, run on the training manifest a finished
\* run of preprocess.py wrote, as the usage of augment.py gives it: python
\* augment.py --input data/processed/train.tsv --output ..., with at least one
\* of --speed_perturbation, --noise_injection and --volume_augmentation (with
\* none main returns and nothing is augmented) and the default --augment_ratio
AugmentMain ==
    /\ pc = "done" /\ aug.pc = "none"
    /\ "train.tsv" \in DOMAIN manifests
    /\ \E speed_perturbation, noise_injection, volume_augmentation \in BOOLEAN :
          LET rows == manifests["train.tsv"]
              techniques == (IF speed_perturbation THEN <<"speed">> ELSE <<>>)
                                \o (IF noise_injection THEN <<"noise">> ELSE <<>>)
                                \o (IF volume_augmentation THEN <<"volume">> ELSE <<>>)
          IN /\ techniques # <<>>
             /\ aug' = [NoAug EXCEPT
                           !.pc = "start", !.techniques = techniques,
                           !.ratio = [n |-> 1, d |-> 2],
                           !.samples = [k \in 1..(Len(rows) - 1) |->
                                           [path |-> rows[k + 1][1],
                                            transcript |-> rows[k + 1][2],
                                            speaker |-> rows[k + 1][3],
                                            locale |-> rows[k + 1][4]]]]
    /\ UNCHANGED <<augHistory, sig, tsv>>
    /\ UNCHANGED <<ctorArgs, splitter, corpus, history, rngMemo>>
    /\ UNCHANGED pipeVars

----------------------------------------------------------------------------
(* Signal transforms: normalize_audio, add_white_noise, add_background_noise *)

\* A sample is a float, modelled as the fraction n/d in lowest terms with
\* d >= 0: a finite rational when d > 0, inf as 1/0, -inf as -1/0 and nan as
\* 0/0.  The arithmetic is exact where IEEE-754 rounds.
Q(n, d) ==
    LET RECURSIVE Gcd(_, _)
        Gcd(a, b) == IF b = 0 THEN a ELSE Gcd(b, a % b)
        s == IF d < 0 THEN -1 ELSE 1
        g == Gcd(IF n < 0 THEN -n ELSE n, s * d)
    IN IF g = 0 THEN [n |-> 0, d |-> 0]
       ELSE [n |-> (s * n) \div g, d |-> (s * d) \div g]

\* x * y: inf * 0 is nan
Times(x, y) == Q(x.n * y.n, x.d * y.d)

\* x / y of numpy floats: no exception, x / 0 is inf or nan
Over(x, y) == Times(x, Q(y.d, y.n))

\* x + y: inf + inf is inf, inf - inf is nan
Plus(x, y) ==
    IF x.d = 0 /\ y.d = 0 THEN (IF x.n = y.n THEN x ELSE Q(0, 0))
    ELSE Q(x.n * y.d + y.n * x.d, x.d * y.d)

\* np.max(np.abs(buf)) of a buffer that is not empty
Peak(buf) ==
    IF \E i \in DOMAIN buf : buf[i] = Q(0, 0) THEN Q(0, 0)
    ELSE IF \E i \in DOMAIN buf : buf[i].d = 0 THEN Q(1, 0)
    ELSE LET mag(x) == Q(IF x.n < 0 THEN -x.n ELSE x.n, x.d)
             top == CHOOSE i \in DOMAIN buf :
                        \A j \in DOMAIN buf :
                            mag(buf[j]).n * mag(buf[i]).d <= mag(buf[i]).n * mag(buf[j]).d
         IN mag(buf[top])

\* the result of a transform: the buffer returned, or the exception raised
Returns(out) == [status |-> "returned", out |-> out]

\* the buffer is scaled to peak 1, whatever the target level
NormalizeToUnit(audio, target_level) ==
    IF audio = <<>> THEN [status |-> "ValueError", out |-> <<>>]
    ELSE Returns([i \in DOMAIN audio |-> Over(audio[i], Peak(audio))])

\* normalize_audio(audio, target_level): max() of an empty array raises
NormalizeAudio(audio, target_level) ==
    IF audio = <<>> THEN [status |-> "ValueError", out |-> <<>>]
    ELSE LET peak == Peak(audio)
         IN IF peak.n > 0
            THEN Returns([i \in DOMAIN audio |->
                             Times(audio[i], Over(target_level, peak))])
            ELSE Returns(audio)

\* augmented / np.max(np.abs(augmented)) * 0.95, lines 74 and 111
Rescaled(augmented) ==
    IF augmented = <<>> THEN [status |-> "ValueError", out |-> <<>>]
    ELSE Returns([i \in DOMAIN augmented |->
                     Times(Over(augmented[i], Peak(augmented)), Q(95, 100))])

\* add_white_noise(audio, noise_level), where np.random.normal drew noise
AddWhiteNoise(audio, noise) ==
    Rescaled([i \in DOMAIN audio |-> Plus(audio[i], noise[i])])

\* the noise is stretched over the length of the audio
FitNoiseStretched(noise_audio, la) ==
    [i \in 1..la |-> noise_audio[(((i - 1) * Len(noise_audio)) \div la) + 1]]

\* lines 90-97 of add_background_noise: a noise buffer that is not empty and
\* shorter than the audio is repeated int(np.ceil(la / ln)) times by np.tile,
\* then noise_audio[:la] keeps the first la samples
FitNoise(noise_audio, la) ==
    LET ln == Len(noise_audio)
        repeats == (la + ln - 1) \div ln
        RECURSIVE Tile(_)
        Tile(reps) == IF reps = 0 THEN <<>> ELSE noise_audio \o Tile(reps - 1)
        tiled == IF ln < la THEN Tile(repeats) ELSE noise_audio
    IN SubSeq(tiled, 1, Min(la, Len(tiled)))

\* add_background_noise(audio, noise_audio, snr_db) for snr_db 0 or 20; the
\* square root is cut to hundredths
AddBackgroundNoise(audio, noise_audio, snr_db) ==
    LET la == Len(audio)
        ln == Len(noise_audio)
        fitted == FitNoise(noise_audio, la)
        RECURSIVE SumSq(_, _)
        SumSq(buf, n) == IF n = 0 THEN Q(0, 1)
                         ELSE Plus(Times(buf[n], buf[n]), SumSq(buf, n - 1))
        Mean(buf) == Over(SumSq(buf, Len(buf)), Q(Len(buf), 1))
        Sqrt(x) == IF x.d = 0 THEN x
                   ELSE LET r == CHOOSE r \in 0..(100 * (x.n + 1)) :
                                     /\ r * r * x.d <= 10000 * x.n
                                     /\ (r + 1) * (r + 1) * x.d > 10000 * x.n
                        IN Q(r, 100)
        snr_linear == Q(IF snr_db = 0 THEN 1 ELSE 100, 1)
        noise_scale == Sqrt(Over(Mean(audio), Times(Mean(fitted), snr_linear)))
    IN IF ln < la /\ ln = 0 THEN [status |-> "ZeroDivisionError", out |-> <<>>]
       ELSE Rescaled([i \in 1..la |-> Plus(audio[i], Times(noise_scale, fitted[i]))])

\* the scaled buffer is brought to peak 0.95 whatever its peak
VolumeAlwaysRenormalized(audio, gain_db) ==
    LET gain_linear == IF gain_db >= 0 THEN Q(10 ^ (gain_db \div 20), 1)
                       ELSE Q(1, 10 ^ ((-gain_db) \div 20))
    IN Rescaled([i \in DOMAIN audio |-> Times(audio[i], gain_linear)])

\* volume_perturbation(audio, gain_db) for a gain that is a multiple of 20 dB,
\* where 10 ** (gain_db / 20.0) is a power of ten; np.max of an empty array
\* raises
VolumePerturbation(audio, gain_db) ==
    LET gain_linear == IF gain_db >= 0 THEN Q(10 ^ (gain_db \div 20), 1)
                       ELSE Q(1, 10 ^ ((-gain_db) \div 20))
        augmented == [i \in DOMAIN audio |-> Times(audio[i], gain_linear)]
    IN IF audio = <<>> THEN [status |-> "ValueError", out |-> <<>>]
       ELSE IF Peak(augmented).n > Peak(augmented).d THEN Rescaled(augmented)
       ELSE Returns(augmented)

\* normalize_audio(audio, target_level) is called
SigNormalize ==
    /\ sig.pc = "call" /\ sig.fn = "normalize_audio"
    /\ sig' = [sig EXCEPT !.pc = "returned",
                          !.result = NormalizeAudio(sig.audio, sig.param)]
    /\ UNCHANGED <<aug, augHistory, tsv>>
    /\ UNCHANGED <<ctorArgs, splitter, corpus, history, rngMemo>>
    /\ UNCHANGED pipeVars

\* add_white_noise(audio, noise_level) is called: a noise level of 0 draws
\* zeros, any other level draws non-zero values
SigWhiteNoise ==
    /\ sig.pc = "call" /\ sig.fn = "add_white_noise"
    /\ \E noise \in [DOMAIN sig.audio ->
                        IF sig.param.n = 0 THEN {Q(0, 1)} ELSE {Q(-1, 100), Q(1, 100)}] :
          sig' = [sig EXCEPT !.pc = "returned", !.noise = noise,
                             !.result = AddWhiteNoise(sig.audio, noise)]
    /\ UNCHANGED <<aug, augHistory, tsv>>
    /\ UNCHANGED <<ctorArgs, splitter, corpus, history, rngMemo>>
    /\ UNCHANGED pipeVars

\* volume_perturbation(audio, gain_db) is called
SigVolume ==
    /\ sig.pc = "call" /\ sig.fn = "volume_perturbation"
    /\ sig' = [sig EXCEPT !.pc = "returned",
                          !.result = VolumePerturbation(sig.audio, sig.param.n)]
    /\ UNCHANGED <<aug, augHistory, tsv>>
    /\ UNCHANGED <<ctorArgs, splitter, corpus, history, rngMemo>>
    /\ UNCHANGED pipeVars

\* add_background_noise(audio, noise_audio, snr_db) is called
SigBackgroundNoise ==
    /\ sig.pc = "call" /\ sig.fn = "add_background_noise"
    /\ sig' = [sig EXCEPT !.pc = "returned",
                          !.result = AddBackgroundNoise(sig.audio, sig.noise, sig.param.n)]
    /\ UNCHANGED <<aug, augHistory, tsv>>
    /\ UNCHANGED <<ctorArgs, splitter, corpus, history, rngMemo>>
    /\ UNCHANGED pipeVars

----------------------------------------------------------------------------
(* Manifests: save_tsv of preprocess.py and the reader of augment_dataset *)

\* A text is a sequence of characters; "TAB", "QUOTE", "CR" and "LF" stand for
\* the tab, the double quote, the carriage return and the line feed, any other
\* string for an ordinary character or a run of them.

\* csv.writer(f, delimiter='\t').writerow(row): the characters written.  A
\* field holding the delimiter, the quote character or a character of the line
\* terminator is quoted, its quotes doubled; the row ends with "\r\n".
WriteRow(row) ==
    LET RECURSIVE Doubled(_)
        Doubled(field) ==
            IF field = <<>> THEN <<>>
            ELSE (IF Head(field) = "QUOTE" THEN <<"QUOTE", "QUOTE">> ELSE <<Head(field)>>)
                     \o Doubled(Tail(field))
        Cell(field) ==
            IF \E i \in DOMAIN field : field[i] \in {"TAB", "QUOTE", "CR", "LF"}
            THEN <<"QUOTE">> \o Doubled(field) \o <<"QUOTE">>
            ELSE IF Len(row) = 1 /\ field = <<>> THEN <<"QUOTE", "QUOTE">>
            ELSE field
        RECURSIVE Joined(_)
        Joined(k) == IF k = 0 THEN <<>>
                     ELSE IF k = 1 THEN Cell(row[1])
                     ELSE Joined(k - 1) \o <<"TAB">> \o Cell(row[k])
    IN Joined(Len(row)) \o <<"CR", "LF">>

\* save_tsv(data, output_path): the content of the file, which is opened with
\* newline='' so that nothing is translated on the way out
SaveTsvText(data) ==
    LET RECURSIVE Lines(_)
        Lines(i) == IF i > Len(data) THEN <<>>
                   ELSE WriteRow(<<data[i].path, data[i].transcript,
                                   data[i].speaker, data[i].locale>>) \o Lines(i + 1)
    IN WriteRow(<<<<"path">>, <<"transcript">>, <<"speaker">>, <<"locale">>>>) \o Lines(1)

\* open(input_tsv, 'r', encoding='utf-8') and list(csv.DictReader(f,
\* delimiter='\t')): the file is opened without newline='', so "\r\n" and "\r"
\* reach the reader as "\n"; the first row gives the field names, empty rows
\* are skipped, a missing field reads as None
ReadManifest(content) ==
    LET RECURSIVE Translated(_)
        Translated(t) ==
            IF t = <<>> THEN <<>>
            ELSE IF Head(t) = "CR"
                 THEN <<"LF">> \o Translated(IF Len(t) > 1 /\ t[2] = "LF"
                                             THEN Tail(Tail(t)) ELSE Tail(t))
                 ELSE <<Head(t)>> \o Translated(Tail(t))
        text == Translated(content)
        RECURSIVE Parse(_, _, _, _, _)
        Parse(i, state, field, row, rows) ==
            IF i > Len(text)
            THEN IF state = "START_RECORD" THEN rows ELSE Append(rows, Append(row, field))
            ELSE LET c == text[i]
                 IN CASE state = "START_RECORD" /\ c = "LF" ->
                            Parse(i + 1, "START_RECORD", <<>>, <<>>, rows)
                      [] state \in {"START_RECORD", "START_FIELD"} /\ c = "QUOTE" ->
                            Parse(i + 1, "IN_QUOTED_FIELD", <<>>, row, rows)
                      [] state = "IN_QUOTED_FIELD" /\ c = "QUOTE" ->
                            Parse(i + 1, "QUOTE_IN_QUOTED_FIELD", field, row, rows)
                      [] state = "IN_QUOTED_FIELD" /\ c # "QUOTE" ->
                            Parse(i + 1, "IN_QUOTED_FIELD", Append(field, c), row, rows)
                      [] state = "QUOTE_IN_QUOTED_FIELD" /\ c = "QUOTE" ->
                            Parse(i + 1, "IN_QUOTED_FIELD", Append(field, c), row, rows)
                      [] state # "IN_QUOTED_FIELD" /\ c = "TAB" ->
                            Parse(i + 1, "START_FIELD", <<>>, Append(row, field), rows)
                      [] state \notin {"START_RECORD", "IN_QUOTED_FIELD"} /\ c = "LF" ->
                            Parse(i + 1, "START_RECORD", <<>>, <<>>,
                                  Append(rows, Append(row, field)))
                      [] OTHER ->
                            Parse(i + 1, "IN_FIELD", Append(field, c), row, rows)
        rows == Parse(1, "START_RECORD", <<>>, <<>>, <<>>)
        fieldnames == IF rows = <<>> THEN <<>> ELSE Head(rows)
        Value(row, key) ==
            IF \E j \in DOMAIN row : j \in DOMAIN fieldnames /\ fieldnames[j] = <<key>>
            THEN row[CHOOSE j \in DOMAIN row :
                         j \in DOMAIN fieldnames /\ fieldnames[j] = <<key>>]
            ELSE <<"None">>
    IN [fieldnames |-> fieldnames,
        samples |-> [r \in 1..(Len(rows) - 1) |->
                        [key \in {"path", "transcript", "speaker", "locale"} |->
                            Value(rows[r + 1], key)]]]

\* save_tsv(data, output_path) writes the manifest
TsvSave ==
    /\ tsv.pc = "data"
    /\ tsv' = [tsv EXCEPT !.pc = "saved", !.content = SaveTsvText(tsv.data)]
    /\ UNCHANGED <<aug, augHistory, sig>>
    /\ UNCHANGED <<ctorArgs, splitter, corpus, history, rngMemo>>
    /\ UNCHANGED pipeVars

\* augment_dataset reads the manifest, lines 201 to 205
TsvRead ==
    /\ tsv.pc = "saved"
    /\ tsv' = [tsv EXCEPT !.pc = "read", !.read = ReadManifest(tsv.content)]
    /\ UNCHANGED <<aug, augHistory, sig>>
    /\ UNCHANGED <<ctorArgs, splitter, corpus, history, rngMemo>>
    /\ UNCHANGED pipeVars

\* nothing of augment.py runs
ToolsIdle ==
    aug = NoAug /\ augHistory = <<>> /\ sig = [pc |-> "none"] /\ tsv = [pc |-> "none"]

----------------------------------------------------------------------------
(* The runs *)

NoWorld ==
    [openslr |-> <<Dir("missing", 0), Dir("missing", 0), Dir("missing", 0)>>,
     common_voice |-> [loadable |-> FALSE,
                       splits |-> <<Dir("missing", 0), Dir("missing", 0), Dir("missing", 0)>>],
     profiles |-> {}]

PipeIdle ==
    /\ dirIdx = 1
    /\ ld = NoLoader
    /\ pa = IdleProcess
    /\ all_samples = <<>>
    /\ parts = NoParts
    /\ total_duration = 0
    /\ dirsMade = {}
    /\ audioFiles = <<>>
    /\ manifests = <<>>
    /\ stats = <<>>
    /\ log = <<>>
    /\ calls = <<>>
    /\ exc = NoExc
    /\ odd = 0
    /\ ToolsIdle

\* python preprocess.py --input_dirs ... [--sample_rate R] [--speaker_split]
Init ==
    /\ args \in [input_dirs : InputDirChoices, speaker_split : BOOLEAN,
                 sample_rate : SampleRates]
    /\ world \in Worlds(args.input_dirs, MainLineCounts, MainProfiles)
    /\ TotalLines(world.openslr) + TotalLines(world.common_voice.splits) <= MaxLines
    /\ pc = "input_dir"
    /\ PipeIdle
    /\ ctorArgs = MainSplitterArgs
    /\ splitter = NoSplitter
    /\ corpus = <<>>
    /\ history = <<>>
    /\ rngMemo = <<>>

Next ==
    \/ MainInputDir
    \/ OpenslrSplitDir
    \/ OpenslrReadLine
    \/ OpenslrAppend
    \/ OpenslrReturn
    \/ CvOpen
    \/ CvSplit
    \/ CvReadSample
    \/ CvAppend
    \/ CvReturn
    \/ ProcessAudio
    \/ MainSplit
    \/ MainDuration
    \/ MainSaveSplits
    \/ MainSaveStats

Spec == Init /\ [][Next]_vars

\* python preprocess.py, then python augment.py on the manifest it wrote
PipelineNext == Next \/ AugmentMain \/ AugSelect \/ AugmentOne \/ AugSave

PipelineSpec == Init /\ [][PipelineNext]_vars

\* one loader call on its own: main has reached the call of the loader for its
\* only input directory (the state MainInputDir leaves), on raw data that holds
\* every kind of line
LoaderInit ==
    /\ args \in [input_dirs : {<<OpenslrDir>>, <<CommonVoiceDir>>},
                 speaker_split : {TRUE}, sample_rate : SampleRates]
    /\ world \in Worlds(args.input_dirs, 0..MaxLoaderLines,
                        OpenslrProfiles \cup CvProfiles)
    /\ pc = "loading"
    /\ dirIdx = 1
    /\ ld = IF args.input_dirs[1].kind = "openslr"
            THEN StartLoader("openslr", "dir", args.input_dirs[1].name)
            ELSE StartLoader("common_voice", "open", args.input_dirs[1].name)
    /\ log = << Msg(IF args.input_dirs[1].kind = "openslr"
                    THEN "Processing OpenSLR SLR53" ELSE "Processing Common Voice",
                    args.input_dirs[1].name, "") >>
    /\ pa = IdleProcess
    /\ all_samples = <<>>
    /\ parts = NoParts
    /\ total_duration = 0
    /\ dirsMade = {}
    /\ audioFiles = <<>>
    /\ manifests = <<>>
    /\ stats = <<>>
    /\ calls = <<>>
    /\ exc = NoExc
    /\ odd = 0
    /\ ToolsIdle
    /\ ctorArgs = MainSplitterArgs
    /\ splitter = NoSplitter
    /\ corpus = <<>>
    /\ history = <<>>
    /\ rngMemo = <<>>

LoaderNext ==
    \/ OpenslrSplitDir
    \/ OpenslrReadLine
    \/ OpenslrAppend
    \/ OpenslrReturn
    \/ CvOpen
    \/ CvSplit
    \/ CvReadSample
    \/ CvAppend
    \/ CvReturn
    \/ ProcessAudio

LoaderSpec == LoaderInit /\ [][LoaderNext]_vars

\* nothing of preprocess.py runs
PreprocessIdle ==
    /\ ctorArgs = MainSplitterArgs
    /\ splitter = NoSplitter
    /\ corpus = <<>>
    /\ history = <<>>
    /\ rngMemo = <<>>
    /\ args = [input_dirs |-> <<>>, speaker_split |-> TRUE,
               sample_rate |-> DefaultSampleRate]
    /\ world = NoWorld
    /\ pc = "none"
    /\ dirIdx = 1
    /\ ld = NoLoader
    /\ pa = IdleProcess
    /\ all_samples = <<>>
    /\ parts = NoParts
    /\ total_duration = 0
    /\ dirsMade = {}
    /\ audioFiles = <<>>
    /\ manifests = <<>>
    /\ stats = <<>>
    /\ log = <<>>
    /\ calls = <<>>
    /\ exc = NoExc
    /\ odd = 0

\* augment_dataset(input_tsv, output_tsv, output_audio_dir, techniques, augment_ratio)
AugInit ==
    /\ \E m \in InputManifests, t \in TechniqueLists, r \in AugmentRatios :
          \E f \in Faults(Len(m), t) :
             aug = [NoAug EXCEPT !.pc = "start", !.samples = m, !.techniques = t,
                                 !.ratio = r, !.fault = f]
    /\ augHistory = <<>>
    /\ sig = [pc |-> "none"]
    /\ tsv = [pc |-> "none"]
    /\ PreprocessIdle

AugNext == AugSelect \/ AugmentOne \/ AugSave \/ AugSplit

AugSpec == AugInit /\ [][AugNext]_vars

\* python augment.py twice on the same sound manifest with the same arguments
AugTwiceInit == AugInit /\ aug.fault.row = 0

AugTwiceNext == AugSelect \/ AugmentOne \/ AugSave \/ AugRunAgain

AugTwiceSpec == AugTwiceInit /\ [][AugTwiceNext]_vars

\* one call of a signal transform on its own, or one manifest written by
\* save_tsv and read back by augment_dataset; one transcript of the manifest
\* is any text of up to MaxField characters.  The buffers handed to
\* volume_perturbation are quiet (peak at most 1/10) or loud (peak up to 20)
PureInit ==
    /\ LET Buffers == UNION { [1..n -> {Q(0, 1), Q(1, 2), Q(-1, 1)}] : n \in 0..MaxBuf }
           Call(fn, audio, noise, param) ==
               [fn |-> fn, pc |-> "call", audio |-> audio, noise |-> noise,
                param |-> param, result |-> Returns(<<>>)]
           Texts == UNION { [1..n -> {"a", "TAB", "QUOTE", "CR", "LF"}] : n \in 0..MaxField }
           Manifest(n, k, t) ==
               [i \in 1..n |-> [path |-> <<"p">> \o [j \in 1..i |-> "a"],
                                transcript |-> IF i = k THEN t ELSE <<"a">>,
                                speaker |-> <<"s">>, locale |-> <<"bn">>]]
       IN \/ /\ \/ \E a \in Buffers, target_level \in {Q(95, 100), Q(1, 2)} :
                      sig = Call("normalize_audio", a, <<>>, target_level)
                \/ \E a \in Buffers, noise_level \in {Q(0, 1), Q(5, 1000)} :
                      sig = Call("add_white_noise", a, <<>>, noise_level)
                \/ \E a \in Buffers, b \in Buffers, snr_db \in {0, 20} :
                      sig = Call("add_background_noise", a, b, Q(snr_db, 1))
                \/ \E a \in Buffers, level \in {Q(1, 10), Q(20, 1)},
                      gain_db \in {-20, 20, 40} :
                      sig = Call("volume_perturbation",
                                 [i \in DOMAIN a |-> Times(a[i], level)], <<>>,
                                 Q(gain_db, 1))
             /\ tsv = [pc |-> "none"]
          \/ /\ sig = [pc |-> "none"]
             /\ \E n \in 0..MaxRows, k \in 1..MaxRows, t \in Texts :
                   /\ k <= n \/ (n = 0 /\ k = 1 /\ t = <<>>)
                   /\ tsv = [pc |-> "data", data |-> Manifest(n, k, t), content |-> <<>>,
                             read |-> [fieldnames |-> <<>>, samples |-> <<>>]]
    /\ aug = NoAug
    /\ augHistory = <<>>
    /\ PreprocessIdle

PureNext ==
    SigNormalize \/ SigWhiteNoise \/ SigBackgroundNoise \/ SigVolume \/ TsvSave \/ TsvRead

PureSpec == PureInit /\ [][PureNext]_vars

----------------------------------------------------------------------------
(* Actions of the splitter *)

\* DatasetSplitter(train_ratio, valid_ratio, test_ratio, random_seed)
NewSplitter ==
    /\ splitter.status = "none"
    /\ splitter' = Construct(ctorArgs)
    /\ UNCHANGED <<toolVars, ctorArgs, corpus, history, rngMemo>>
    /\ UNCHANGED pipeVars
    /\ UNCHANGED toolVars

\* splitter.split_by_speaker(corpus)
SplitBySpeaker ==
    /\ splitter.status = "ok"
    /\ Len(history) < MaxCalls
    /\ \E run \in SplitBySpeakerRuns(splitter, corpus, rngMemo) :
            /\ history' = Append(history, [data |-> corpus, out |-> run.out])
            /\ rngMemo' = run.memo
    /\ UNCHANGED <<toolVars, ctorArgs, splitter, corpus>>
    /\ UNCHANGED pipeVars
    /\ UNCHANGED toolVars

SplitInit ==
    /\ ctorArgs \in { [train_ratio |-> r[1], valid_ratio |-> r[2], test_ratio |-> r[3],
                       random_seed |-> s] : r \in RatioTriples, s \in Seeds }
    /\ splitter = NoSplitter
    /\ corpus \in Corpora
    /\ history = <<>>
    /\ rngMemo = <<>>
    /\ args = [input_dirs |-> <<>>, speaker_split |-> TRUE,
               sample_rate |-> DefaultSampleRate]
    /\ world = NoWorld
    /\ pc = "none"
    /\ PipeIdle

SplitNext == NewSplitter \/ SplitBySpeaker

SplitSpec == SplitInit /\ [][SplitNext]_vars

----------------------------------------------------------------------------
(* Properties of DatasetSplitter *)

Range(seq) == { seq[i] : i \in DOMAIN seq }

Count(seq, x) == Cardinality({ i \in DOMAIN seq : seq[i] = x })

SpeakerIds(list) == { SpeakerKey(list[i]) : i \in DOMAIN list }

Returned(h) == h.out.status = "returned"

RatioSum(a) == a.train_ratio.v + a.valid_ratio.v + a.test_ratio.v

\* C1: whenever split_by_speaker returns, the speaker ids of train, valid and
\* test are pairwise disjoint.
C1_SpeakerDisjoint ==
    \A i \in DOMAIN history :
        Returned(history[i]) =>
            LET o == history[i].out
            IN /\ SpeakerIds(o.train) \cap SpeakerIds(o.valid) = {}
               /\ SpeakerIds(o.train) \cap SpeakerIds(o.test) = {}
               /\ SpeakerIds(o.valid) \cap SpeakerIds(o.test) = {}

\* a split of four records returned, one speaker holding two of them
C1_Witness ==
    \E i \in DOMAIN history :
        /\ Returned(history[i])
        /\ Len(history[i].data) = MaxRecords
        /\ \E a, b \in DOMAIN history[i].data :
              a # b /\ SpeakerKey(history[i].data[a]) = SpeakerKey(history[i].data[b])

\* C2: whenever split_by_speaker returns, train, valid and test together hold
\* exactly the input records: every record as often as the input holds it.
C2_ExactPartition ==
    \A i \in DOMAIN history :
        Returned(history[i]) =>
            LET o == history[i].out
                all == o.train \o o.valid \o o.test
            IN /\ Len(all) = Len(history[i].data)
               /\ \A r \in Range(all) \cup Range(history[i].data) :
                      Count(all, r) = Count(history[i].data, r)

\* a returned split whose input holds the same record twice
C2_Witness ==
    \E i \in DOMAIN history :
        /\ Returned(history[i])
        /\ \E a, b \in DOMAIN history[i].data :
              a # b /\ history[i].data[a] = history[i].data[b]

\* C3: two calls of split_by_speaker of one splitter (same ratios, same seed)
\* on the same record list end the same way, with identical train, valid and
\* test lists.
C3_SplitDeterministic ==
    \A i, j \in DOMAIN history :
        history[i].data = history[j].data => history[i].out = history[j].out

\* two returned calls under a seed whose shuffle the model does not fix
C3_Witness ==
    /\ Len(history) >= 2
    /\ Returned(history[1]) /\ Returned(history[2])
    /\ splitter.random_seed # DefaultSeed
    /\ Cardinality(SpeakerIds(corpus)) >= 3

C5_DegenerateRatiosReturn ==
    \A i \in DOMAIN history :
        ( /\ <<ctorArgs.train_ratio, ctorArgs.valid_ratio, ctorArgs.test_ratio>>
                = <<F(Scale), I(0), I(0)>>
          /\ [k \in DOMAIN history[i].data |-> history[i].data[k].speaker]
                = <<"A", "A", "B">> )
        => /\ Returned(history[i])
           /\ history[i].out.train = history[i].data
           /\ history[i].out.valid = <<>>
           /\ history[i].out.test = <<>>

\* C6: when all input records belong to one speaker, split_by_speaker ends in
\* an error and returns nothing, whatever ratios the constructor accepted.
C6_SingleSpeakerFails ==
    \A i \in DOMAIN history :
        Cardinality(SpeakerIds(history[i].data)) = 1 => ~Returned(history[i])

\* a call on two or more records of one speaker ended in ValueError
C6_Witness ==
    \E i \in DOMAIN history :
        /\ Cardinality(SpeakerIds(history[i].data)) = 1
        /\ Len(history[i].data) >= 2
        /\ history[i].out.status = "ValueError"

\* C24: within each list split_by_speaker returns, the records of one speaker
\* are contiguous and stand in the order they have in the input list.
C24_SpeakerRecordsContiguousInOrder ==
    \A h \in DOMAIN history :
        Returned(history[h]) =>
            \A list \in {history[h].out.train, history[h].out.valid, history[h].out.test} :
                /\ \A i, k \in DOMAIN list :
                      (i < k /\ SpeakerKey(list[i]) = SpeakerKey(list[k])) =>
                          \A j \in i..k : SpeakerKey(list[j]) = SpeakerKey(list[i])
                /\ \A speaker \in SpeakerIds(list) :
                      SelectSeq(list, LAMBDA s : SpeakerKey(s) = speaker)
                          = SelectSeq(history[h].data, LAMBDA s : SpeakerKey(s) = speaker)

\* train holds the four records of two speakers whose records alternate in the
\* input
C24_Witness ==
    \E h \in DOMAIN history :
        /\ Returned(history[h])
        /\ Len(history[h].data) = MaxRecords + 2
        /\ Len(history[h].out.train) = MaxRecords
        /\ SpeakerIds(history[h].out.train) = {"A", "B"}

\* C25 (as claimed): the records without a speaker key and the records with an
\* empty speaker value form one group, so a returning split_by_speaker puts
\* all of them in the same list.
C25_UnknownSpeakersCollapse ==
    \A h \in DOMAIN history :
        Returned(history[h]) =>
            \E list \in {history[h].out.train, history[h].out.valid, history[h].out.test} :
                \A i \in DOMAIN history[h].data :
                    history[h].data[i].speaker \in {"", NoSpeaker} =>
                        history[h].data[i] \in Range(list)

\* C29: whenever split_by_speaker returns, train, valid and test each hold the
\* records of at least one speaker.
C29_NoEmptySplit ==
    \A h \in DOMAIN history :
        Returned(history[h]) =>
            /\ SpeakerIds(history[h].out.train) # {}
            /\ SpeakerIds(history[h].out.valid) # {}
            /\ SpeakerIds(history[h].out.test) # {}

\* a call on two speakers ended in ValueError and returned nothing, since the
\* second partition would have left valid empty
C29_Witness ==
    \E h \in DOMAIN history :
        /\ Cardinality(SpeakerIds(history[h].data)) = 2
        /\ history[h].out.status = "ValueError"
        /\ RatiosSumToOne(ctorArgs.train_ratio, ctorArgs.valid_ratio, ctorArgs.test_ratio)
        /\ ctorArgs.valid_ratio.v > 0 /\ ctorArgs.test_ratio.v > 0

----------------------------------------------------------------------------
(* Properties of the preprocessing run *)

\* C7 (as claimed): when a configuration error ends a run with speaker split
\* (the ratio assertion, or the ValueError of a degenerate speaker count), the
\* run has written no processed audio file, no manifest and no statistics file.
C7_ConfigErrorLeavesNoOutput ==
    (pc = "raised" /\ args.speaker_split /\ exc.type \in {"AssertionError", "ValueError"})
        => /\ DOMAIN audioFiles = {}
           /\ DOMAIN manifests = {}
           /\ stats = <<>>

\* C8: process_audio never lets an exception reach its caller. A call that ran
\* all steps returns success with duration, original_sr, original_duration and
\* trimmed_seconds; a call in which a step failed returns success = false with
\* the message of that step's error.
C8_ProcessAudioReturnsOutcome ==
    /\ pa.pc # "propagated"
    /\ exc = NoExc
    /\ pa.pc = "done" =>
          IF pa.raised = NoExc
          THEN /\ DOMAIN pa.result = {"success", "duration", "original_sr",
                                      "original_duration", "trimmed_seconds"}
               /\ pa.result.success
               /\ pa.result.duration = audioFiles[PathStr(pa.output_path)].secs
               /\ pa.result.original_sr = NativeRate(pa.profile, args.sample_rate)
               /\ pa.result.trimmed_seconds
                      = pa.result.original_duration - pa.result.duration
          ELSE /\ DOMAIN pa.result = {"success", "error"}
               /\ ~pa.result.success
               /\ pa.result.error = pa.raised.msg

\* a call that failed in its last step, the write, returned the failure
C8_Witness ==
    /\ pa.pc = "done"
    /\ pa.raised = ErrorOf("write")
    /\ ~pa.result.success
    /\ pa.result.error = ErrorOf("write").msg

RECURSIVE Appended(_, _)
\* the records of the outcomes that succeeded, in order
Appended(outcomes, n) ==
    IF n = 0 THEN <<>>
    ELSE IF outcomes[n].success
         THEN Append(Appended(outcomes, n - 1), outcomes[n].record)
         ELSE Appended(outcomes, n - 1)

\* C9 (as claimed): in both loaders a failure while handling one record drops
\* only that record: every record of the dataset is still read, and the
\* returned list holds exactly the records handled without failure, in order.
C9_LoaderFailureIsolated ==
    \A i \in DOMAIN calls :
        /\ calls[i].read = calls[i].total
        /\ calls[i].samples = Appended(calls[i].outcomes, Len(calls[i].outcomes))

\* C10 (as claimed): for every input file whose handling failed, the run has
\* reported that file's path together with the reason of the failure.
C10_DropsAttributable ==
    \A i \in DOMAIN calls :
        \A j \in DOMAIN calls[i].outcomes :
            LET o == calls[i].outcomes[j]
            IN ~o.success =>
                 \E m \in DOMAIN log : log[m].path = o.input /\ log[m].reason = o.error

----------------------------------------------------------------------------
(* Properties of augment.py *)

Catalogue ==
    << "original", "speed_0.9", "speed_1.1", "noise_0.003", "noise_0.007",
       "volume_-3db", "volume_3db" >>

TechniqueOfTag(tag) ==
    CASE tag \in {"speed_0.9", "speed_1.1"} -> "speed"
      [] tag \in {"noise_0.003", "noise_0.007"} -> "noise"
      [] tag \in {"volume_-3db", "volume_3db"} -> "volume"
      [] OTHER -> "original"

CatalogueNames(techniques) == Range(techniques) \cap {"speed", "noise", "volume"}

\* C11: a returning augment_audio call returns 1 + 2 * (number of requested
\* catalogue techniques) (path, tag) pairs, each with its own written file, in
\* the catalogue's order restricted to the requested techniques, whatever the
\* order or repetition of the names and whatever other names are given;
\* speed and noise together give 5.
C11_AugmentationCatalogue ==
    aug.call.returned =>
        LET T == CatalogueNames(aug.call.techniques)
            files == aug.call.augmented_files
        IN /\ Len(files) = 1 + 2 * Cardinality(T)
           /\ [i \in DOMAIN files |-> files[i].tag]
                 = SelectSeq(Catalogue, LAMBDA t : TechniqueOfTag(t) \in T \cup {"original"})
           /\ \A i \in DOMAIN files : files[i].path \in aug.files
           /\ \A i, j \in DOMAIN files : i # j => files[i].path # files[j].path
           /\ T = {"speed", "noise"} => Len(files) = 5

\* a call with noise named before speed returned its 5 pairs
C11_Witness ==
    /\ aug.call.returned
    /\ aug.call.techniques = <<"noise", "speed">>
    /\ Len(aug.call.augmented_files) = 5

C13_AugmentedRecordDerived ==
    /\ \A j \in DOMAIN aug.augmented_samples :
          LET r == aug.augmented_samples[j]
              src == aug.samples[aug.origin[j].source]
              f == aug.origin[j].file
          IN /\ r.speaker = src.speaker \o "_" \o f.tag
             /\ r.path = f.path /\ r.path \in aug.files
             /\ r.transcript = src.transcript
             /\ r.locale = src.locale
             /\ r.path # src.path
    /\ aug.samples \in InputManifests
    /\ aug.pc = "done" => SubSeq(aug.output[1], 1, Len(aug.samples)) = aug.samples

\* a finished run whose output holds the faster variant of a row of speaker B
C13_Witness ==
    /\ aug.pc = "done"
    /\ \E j \in DOMAIN aug.augmented_samples :
          /\ aug.augmented_samples[j].speaker = "B_speed_1.1"
          /\ aug.samples[aug.origin[j].source].speaker = "B"

\* C14 (as claimed): two runs of augment_dataset on the same manifest with the
\* same techniques and ratio select the same rows in the same order and write
\* the same output manifest.
C14_AugmentationDeterministic ==
    \A a, b \in DOMAIN augHistory :
        /\ augHistory[a].selected = augHistory[b].selected
        /\ augHistory[a].output = augHistory[b].output

\* C15 (as claimed): a run in which the augmentation of one selected row fails
\* still ends with every other selected row augmented and the output manifest
\* written.
C15_FailureDoesNotStopBatch ==
    (aug.pc \in {"done", "raised"} /\ aug.fault.row \in Range(aug.selected)) =>
        /\ aug.output # <<>>
        /\ \A i \in DOMAIN aug.selected :
              aug.selected[i] # aug.fault.row =>
                  \E j \in DOMAIN aug.origin : aug.origin[j].source = aug.selected[i]

\* C30 (as claimed): when the records of an augmented manifest are split by
\* speaker, every augmented record lands in the list that holds the source
\* record it was derived from.
C30_VariantStaysWithSource ==
    \A h \in DOMAIN history :
        (aug.pc = "done" /\ Returned(history[h])) =>
            \A j \in DOMAIN aug.augmented_samples :
                \E list \in {history[h].out.train, history[h].out.valid, history[h].out.test} :
                    /\ aug.augmented_samples[j] \in Range(list)
                    /\ aug.samples[aug.origin[j].source] \in Range(list)

\* C28 (as claimed): in a finished run on a manifest whose records have
\* pairwise distinct paths, no two variants were written to the same file and
\* the records of the output manifest have pairwise distinct paths.
C28_PathsStayUnique ==
    ( /\ aug.pc = "done"
      /\ \A i, j \in DOMAIN aug.samples :
            i # j => aug.samples[i].path # aug.samples[j].path )
    => /\ \A i, j \in DOMAIN aug.origin :
             i # j => aug.origin[i].file.path # aug.origin[j].file.path
       /\ \A i, j \in DOMAIN aug.output[1] :
             i # j => aug.output[1][i].path # aug.output[1][j].path

----------------------------------------------------------------------------
(* Properties of process_audio's steps and of the statistics *)

FixedOrder == <<"load", "resample", "normalize", "trim", "mkdir", "write">>

\* C16: the steps process_audio has performed are always an initial part of
\* load, resample, normalize, trim, mkdir, write, with resample present exactly
\* when the file's native rate differs from the target rate; the output's
\* parent directory exists whenever the write is attempted; after a failure of
\* an earlier step no write is attempted.
C16_ProcessAudioStepOrder ==
    LET planned == SelectSeq(FixedOrder,
                       LAMBDA s : s # "resample" \/ pa.original_sr # args.sample_rate)
    IN /\ \E n \in 0..Len(planned) : pa.steps = SubSeq(planned, 1, n)
       /\ (pa.pc = "done" /\ pa.raised = NoExc) => pa.steps = planned
       /\ (pa.pc = "write" \/ pa.raised = ErrorOf("write") \/ "write" \in Range(pa.steps))
             => pa.output_path.dir \in dirsMade
       /\ (pa.raised # NoExc /\ pa.raised # ErrorOf("write")) =>
             /\ pa.pc = "done"
             /\ "write" \notin Range(pa.steps)
             /\ PathStr(pa.output_path) \notin DOMAIN audioFiles

\* a file of another rate went through all six steps and was written
C16_Witness ==
    /\ pa.pc = "done"
    /\ pa.result.success
    /\ pa.original_sr # args.sample_rate
    /\ pa.steps = FixedOrder
    /\ PathStr(pa.output_path) \in DOMAIN audioFiles

\* C19 (as claimed): the duration in stats.json is the sum of the durations of
\* the records of the written train, valid and test splits (here in
\* hundredths of a second).
C19_DurationOverOutputSet ==
    stats # <<>> =>
        stats[1].estimated_hours
            = 100 * ( SumSecs(audioFiles, parts.train, Len(parts.train))
                      + SumSecs(audioFiles, parts.valid, Len(parts.valid))
                      + SumSecs(audioFiles, parts.test, Len(parts.test)) )

\* C23: stats.json agrees with the run that wrote it: the three split counts
\* are the row counts of the three manifests, total_samples is their sum and
\* the number of records that were processed successfully, speaker_split tells
\* whether the speaker-level split was used, and it is written once, when the
\* three manifests exist.
C23_StatsAgreeWithRun ==
    stats # <<>> =>
        /\ Len(stats) = 1
        /\ {"train.tsv", "valid.tsv", "test.tsv"} \subseteq DOMAIN manifests
        /\ stats[1].train_samples = Len(manifests["train.tsv"]) - 1
        /\ stats[1].valid_samples = Len(manifests["valid.tsv"]) - 1
        /\ stats[1].test_samples = Len(manifests["test.tsv"]) - 1
        /\ stats[1].total_samples
              = stats[1].train_samples + stats[1].valid_samples + stats[1].test_samples
        /\ stats[1].total_samples
              = Cardinality({ p \in (DOMAIN calls) \X (1..MaxLines) :
                                /\ p[2] \in DOMAIN calls[p[1]].outcomes
                                /\ calls[p[1]].outcomes[p[2]].success })
        /\ stats[1].speaker_split <=> splitter.status = "ok"

\* the statistics of a speaker-level run in which one of seven records failed
C23_Witness ==
    /\ stats # <<>>
    /\ stats[1].speaker_split
    /\ stats[1].total_samples = MaxLines - 1
    /\ \E c \in DOMAIN calls : \E i \in DOMAIN calls[c].outcomes :
          ~calls[c].outcomes[i].success

----------------------------------------------------------------------------
(* Properties of the pipeline: preprocess.py, then augment.py *)

\* C21: augmentation takes place after the processing of the records and
\* before the split: while augment_dataset runs or has run, main has made no
\* split and written no manifest yet, and once both programs have finished
\* every augmented record is in one of the manifests of the split.
C21_AugmentationBeforeSplit ==
    /\ aug.pc # "none" => (parts.status = "none" /\ manifests = <<>>)
    /\ (pc = "done" /\ aug.pc = "done") =>
          \A j \in DOMAIN aug.augmented_samples :
              \E name \in DOMAIN manifests : \E i \in 2..Len(manifests[name]) :
                  manifests[name][i][1] = aug.augmented_samples[j].path

\* C22: every file a manifest of the pipeline refers to is written at the
\* rate of --sample_rate: the files of the manifests main wrote, and the
\* variant files of a finished augmentation run.
C22_SingleSampleRate ==
    /\ pc = "done" =>
          \A name \in DOMAIN manifests : \A i \in 2..Len(manifests[name]) :
              audioFiles[manifests[name][i][1]].sr = args.sample_rate
    /\ (aug.pc = "done" /\ aug.augmented_samples # <<>>) => aug.sr = args.sample_rate

----------------------------------------------------------------------------
(* Properties of the signal transforms *)

\* C17: normalize_audio of a buffer with a non-zero sample returns a buffer of
\* the same length whose largest absolute sample is the target level, every
\* sample scaled by target / peak; a buffer of zeros is returned unchanged.
C17_PeakNormalization ==
    (sig.pc = "returned" /\ sig.fn = "normalize_audio" /\ sig.audio # <<>>) =>
        /\ sig.result.status = "returned"
        /\ IF \E i \in DOMAIN sig.audio : sig.audio[i].n # 0
           THEN /\ Len(sig.result.out) = Len(sig.audio)
                /\ Peak(sig.result.out) = sig.param
                /\ \A i \in DOMAIN sig.audio :
                      sig.result.out[i] =
                          Times(sig.audio[i], Over(sig.param, Peak(sig.audio)))
           ELSE sig.result.out = sig.audio

\* a buffer whose peak is neither 0 nor the target has been normalized
C17_Witness ==
    /\ sig.pc = "returned" /\ sig.fn = "normalize_audio"
    /\ Len(sig.audio) = 2
    /\ Peak(sig.audio) = Q(1, 2)
    /\ sig.param = Q(95, 100)
    /\ Peak(sig.result.out) = Q(95, 100)

\* C18: add_white_noise and add_background_noise, on silent audio or silent
\* noise, raise an error or return a buffer of finite samples.
C18_NoiseDegeneraciesSafe ==
    (sig.pc = "returned" /\ sig.fn \in {"add_white_noise", "add_background_noise"}
        /\ sig.result.status = "returned") =>
        \A i \in DOMAIN sig.result.out : sig.result.out[i].d # 0

C27_NoiseTiledAndTrimmed ==
    (sig.pc = "returned" /\ sig.fn = "add_background_noise" /\ sig.noise # <<>>) =>
        LET L == Len(sig.audio)
            M == Len(sig.noise)
            mixed == FitNoise(sig.noise, L)
        IN /\ Len(mixed) = L
           /\ \A i \in 0..(L - 1) : mixed[i + 1] = sig.noise[(i % M) + 1]
           /\ L >= 1 => /\ sig.result.status = "returned"
                        /\ Len(sig.result.out) = L

\* a noise buffer of two different samples has been mixed into audio of three
\* samples: repeated twice and cut to three
C27_Witness ==
    /\ sig.pc = "returned" /\ sig.fn = "add_background_noise"
    /\ Len(sig.audio) = 3
    /\ sig.noise = <<Q(1, 2), Q(-1, 1)>>
    /\ FitNoise(sig.noise, 3) = <<Q(1, 2), Q(-1, 1), Q(1, 2)>>
    /\ sig.result.status = "returned"
    /\ Len(sig.result.out) = 3

\* C20: a manifest written by save_tsv and read by augment_dataset yields the
\* records that were written, in the same order, under the header row path,
\* transcript, speaker, locale.
C20_ManifestRoundTrip ==
    tsv.pc = "read" =>
        /\ tsv.read.fieldnames = <<<<"path">>, <<"transcript">>, <<"speaker">>, <<"locale">>>>
        /\ tsv.read.samples = tsv.data

============================================================================
